---- MODULE Spec2Model ----
(***************************************************************************)
(* Model of the Marstek Cloud API client (coordinator.py, const.py):       *)
(* the login / device-list exchange of MarstekAPI.get_devices with its     *)
(* token refresh and single retry, the response classification of         *)
(* MarstekAPI._get_token and the device filter, and of the refresh cycle   *)
(* of MarstekCoordinator around it.                                        *)
(*                                                                         *)
(* Python values are tagged records so that the number 401 and the string  *)
(* "401" stay different values.  Messages are sequences of text fragments; *)
(* a substring test is a test for a contiguous run of fragments.           *)
(***************************************************************************)
EXTENDS Integers, Sequences, FiniteSets, TLC

VARIABLES
    token,          \* MarstekAPI._token
    pc,             \* position of the get_devices coroutine
    outcome,        \* what the last finished get_devices call returned or raised
    prevKind,       \* how the call before the current one ended: none, ok, fail,
                    \* or denied for a failure with code 8
    tokenAtStart,   \* _token when the current call started
    reqs,           \* HTTP requests issued by the current call, in order
    lastLogin,      \* the answer to the last login request of the current call
    firstDev,       \* status and code of the first device-list response, when it parsed
    lastDev,        \* the answer to the device-list request that ended the call
    cpc,            \* position of MarstekCoordinator._async_update_data
    data,           \* DataUpdateCoordinator.data, the published device list
    last_update_success,    \* DataUpdateCoordinator.last_update_success
    last_latency,   \* MarstekCoordinator.last_latency
    result,         \* what the last finished _async_update_data returned or raised
    elapsed,        \* perf_counter() - start of the last finished cycle, microseconds
    succeeded,      \* a cycle has succeeded since construction
    pending,        \* refresh requests the host has accepted and not yet started
    inflight,       \* _async_update_data coroutines started and not finished
    entries,        \* the host's config entries, by entry id
    registry,       \* hass.data[DOMAIN]: the coordinator stored for an entry id
    apis,           \* _token of the MarstekAPI objects the coordinators hold
    last,           \* the last step of the integration and what it met
    entities,       \* what sensor.py's async_setup_entry handed to the host
    shown           \* the last native_value the host read from a sensor

coordVars == <<cpc, data, last_update_success, last_latency, result, elapsed,
               succeeded, pending, inflight>>

intVars == <<entries, registry, apis, last>>

sensVars == <<entities, shown>>

vars == <<token, pc, outcome, prevKind, tokenAtStart, reqs,
          lastLogin, firstDev, lastDev, cpc, data, last_update_success,
          last_latency, result, elapsed, succeeded, pending, inflight,
          entries, registry, apis, last, entities, shown>>

----------------------------------------------------------------------------
(* Bounds *)

MaxDevs == 2        \* longest device list the server sends under Spec
MaxFilterLen == 3   \* longest device list the server sends under SpecFilter
MaxInFlight == 2    \* most coroutines of _async_update_data counted at a time

----------------------------------------------------------------------------
(* Python values *)

PyInt(n) == [t |-> "int", i |-> n, s |-> ""]
PyStr(x) == [t |-> "str", i |-> 0, s |-> x]
PyNone == [t |-> "none", i |-> 0, s |-> ""]
PyList == [t |-> "list", i |-> 0, s |-> ""]     \* some JSON array (unhashable)

\* str(v)
PyStrOf(v) ==
    CASE v.t = "int" -> ToString(v.i)
      [] v.t = "str" -> v.s
      [] v.t = "none" -> "None"
      [] OTHER -> "[]"

\* bool(v)
Truthy(v) ==
    CASE v.t = "int" -> v.i # 0
      [] v.t = "str" -> v.s # ""
      [] v.t = "none" -> FALSE
      [] OTHER -> FALSE

\* hash(v) succeeds
Hashable(v) == v.t # "list"

----------------------------------------------------------------------------
(* const.py *)

IGNORED_DEVICE_TYPES == <<PyStr("HME-3")>>

TOKEN_INVALID_CODES ==
    {PyInt(-1), PyStr("-1"), PyInt(401), PyStr("401"), PyInt(403), PyStr("403")}

----------------------------------------------------------------------------
(* Messages *)

\* needle occurs in msg as a contiguous run of fragments
Contains(msg, needle) ==
    \E k \in 0..(Len(msg) - Len(needle)) :
        \A j \in 1..Len(needle) : msg[k + j] = needle[j]

ErrDetail == <<"Connection reset">>     \* str(e) of a raised exception

MsgInvalidCredentials == <<"Invalid email or password">>
MsgUnavailable(status) ==
    <<"API ", "temporarily unavailable", " (", "HTTP ", ToString(status), ")">>
MsgRequestFailed(status) ==
    <<"API request failed", " (", "HTTP ", ToString(status), ")">>
MsgInvalidFormat == <<"API returned ", "invalid response format">>
MsgUnexpectedType(tn) == <<"Unexpected API response type", ": ", tn>>
MsgLoginFailed(m) == <<"Login failed", ": ">> \o m
MsgTimeout == <<"API request ", "timeout", " - check network connection">>
MsgNetwork(d) == <<"Network error", ": ">> \o d
MsgNetworkRetry(d) == <<"Network error", " on ", "retry", ": ">> \o d
MsgUnexpected(d) == <<"Unexpected error", ": ">> \o d
MsgAccessDenied ==
    <<"API ", "access denied", " (code 8)",
      " - account may not have API permissions">>
MsgInvalidResponse(m) == <<"Invalid API response", ": ">> \o m
MsgInvalidStructure == <<"Invalid API response", " structure">>

----------------------------------------------------------------------------
(* JSON bodies the server can send *)

NoText == [has |-> FALSE, txt |-> <<>>]          \* key absent
Text(m) == [has |-> TRUE, txt |-> m]            \* key present, "" when m = <<>>

NoData == [present |-> FALSE, isList |-> FALSE, items |-> <<>>]
NotAList == [present |-> TRUE, isList |-> FALSE, items |-> <<>>]
DataList(ds) == [present |-> TRUE, isList |-> TRUE, items |-> ds]

Device(id, ty) == [devid |-> id, type |-> ty]   \* type PyNone: no "type" key

\* device.get("type")
DeviceType(d) == d.type

\* x in lst, for a Python list
RECURSIVE InList(_, _)
InList(x, lst) ==
    IF lst = <<>> THEN FALSE
    ELSE IF Head(lst) = x THEN TRUE
    ELSE InList(x, Tail(lst))

\* data.get("msg") or data.get("message", "Unknown error")
ErrorMsgOf(body) ==
    IF body.msg.has /\ body.msg.txt # <<>> THEN body.msg.txt
    ELSE IF body.message.has THEN body.message.txt
    ELSE <<"Unknown error">>

\* type(data).__name__ of a parsed body
TypeName(body) == body.kind

----------------------------------------------------------------------------
(* MarstekAPI._filter_devices *)

\* the filter with the membership test left out
FilterDevicesKeepsAll(devices) == devices

RECURSIVE FilterDevices(_)
FilterDevices(devices) ==
    IF devices = <<>> THEN <<>>
    ELSE (IF ~InList(DeviceType(Head(devices)), IGNORED_DEVICE_TYPES)
          THEN <<Head(devices)>> ELSE <<>>)
         \o FilterDevices(Tail(devices))

----------------------------------------------------------------------------
(* Results of the steps of the client *)

Ok(v) == [ok |-> TRUE, val |-> v, msg |-> <<>>, parsed |-> TRUE]
Err(m, p) == [ok |-> FALSE, val |-> PyNone, msg |-> m, parsed |-> p]

\* an exception: its class and str(e)
Exc(c, m) == [cls |-> c, msg |-> m]

\* what a call of get_devices hands to its caller
NoOutcome == [kind |-> "none", devices |-> <<>>, msg |-> <<>>, cls |-> ""]
Returned(ds) == [kind |-> "ok", devices |-> ds, msg |-> <<>>, cls |-> ""]
RaisedExc(e) == [kind |-> "fail", devices |-> <<>>, msg |-> e.msg, cls |-> e.cls]
Raised(m) == RaisedExc(Exc("UpdateFailed", m))

\* _get_token storing whatever the "token" field holds
GetTokenAnyToken(resp) ==
    IF resp.status = 401 THEN Err(MsgInvalidCredentials, FALSE)
    ELSE IF resp.status >= 500 THEN Err(MsgUnavailable(resp.status), FALSE)
    ELSE IF resp.status # 200 THEN Err(MsgRequestFailed(resp.status), FALSE)
    ELSE IF resp.body.kind = "invalid_json" THEN Err(MsgInvalidFormat, TRUE)
    ELSE IF resp.body.kind # "dict"
         THEN Err(MsgUnexpectedType(TypeName(resp.body)), TRUE)
    ELSE Ok(resp.body.token)

\* _get_token reading the body before it looks at the status
GetTokenBodyFirst(resp) ==
    IF resp.body.kind = "dict" /\ Truthy(resp.body.token) THEN Ok(resp.body.token)
    ELSE IF resp.status = 401 THEN Err(MsgInvalidCredentials, FALSE)
    ELSE IF resp.status >= 500 THEN Err(MsgUnavailable(resp.status), FALSE)
    ELSE IF resp.status # 200 THEN Err(MsgRequestFailed(resp.status), FALSE)
    ELSE IF resp.body.kind = "invalid_json" THEN Err(MsgInvalidFormat, TRUE)
    ELSE IF resp.body.kind # "dict"
         THEN Err(MsgUnexpectedType(TypeName(resp.body)), TRUE)
    ELSE Err(MsgLoginFailed(ErrorMsgOf(resp.body)), TRUE)

\* MarstekAPI._get_token: the response handling inside the request context.
\* val is the token to store.
GetToken(resp) ==
    IF resp.status = 401 THEN Err(MsgInvalidCredentials, FALSE)
    ELSE IF resp.status >= 500 THEN Err(MsgUnavailable(resp.status), FALSE)
    ELSE IF resp.status # 200 THEN Err(MsgRequestFailed(resp.status), FALSE)
    ELSE IF resp.body.kind = "invalid_json" THEN Err(MsgInvalidFormat, TRUE)
    ELSE IF resp.body.kind # "dict"
         THEN Err(MsgUnexpectedType(TypeName(resp.body)), TRUE)
    ELSE IF ~Truthy(resp.body.token)
         THEN Err(MsgLoginFailed(ErrorMsgOf(resp.body)), TRUE)
    ELSE Ok(resp.body.token)

\* MarstekAPI._parse_json_response
ParseJsonResponse(body) ==
    IF body.kind = "invalid_json" THEN Err(MsgInvalidFormat, TRUE)
    ELSE IF body.kind # "dict" THEN Err(MsgUnexpectedType(TypeName(body)), TRUE)
    ELSE Ok(PyNone)

\* _fetch_devices_with_token without its status test
FetchDevicesWithTokenAnyStatus(resp) == ParseJsonResponse(resp.body)

\* _fetch_devices_with_token raising on every status other than 200
FetchDevicesWithTokenStrict(resp) ==
    IF resp.status >= 500 THEN Err(MsgUnavailable(resp.status), FALSE)
    ELSE IF resp.status # 200 THEN Err(MsgRequestFailed(resp.status), FALSE)
    ELSE ParseJsonResponse(resp.body)

\* MarstekAPI._fetch_devices_with_token: the response handling.  On success
\* the parsed mapping is resp.body.
FetchDevicesWithToken(resp) ==
    IF resp.status >= 500 THEN Err(MsgUnavailable(resp.status), FALSE)
    ELSE ParseJsonResponse(resp.body)

\* get_devices taking a missing data field for an empty list
ExamineDataDefaultsEmpty(body) ==
    IF PyStrOf(body.code) = "8" THEN Raised(MsgAccessDenied)
    ELSE IF ~body.data.present THEN Returned(<<>>)
    ELSE IF ~body.data.isList THEN Raised(MsgInvalidStructure)
    ELSE Returned(FilterDevices(body.data.items))

\* MarstekAPI.get_devices, from the code-8 test to the return: what the call
\* returns or raises for the mapping it finally examines.
ExamineData(body) ==
    IF PyStrOf(body.code) = "8" THEN Raised(MsgAccessDenied)
    ELSE IF ~body.data.present THEN Raised(MsgInvalidResponse(ErrorMsgOf(body)))
    ELSE IF ~body.data.isList THEN Raised(MsgInvalidStructure)
    ELSE Returned(FilterDevices(body.data.items))

\* the exception a faulty request raises inside the client
FaultExc(fault) ==
    CASE fault = "timeout" -> Exc("TimeoutError", <<>>)
      [] fault = "client_error" -> Exc("ClientError", ErrDetail)
      [] OTHER -> Exc("RuntimeError", ErrDetail)

\* "code in TOKEN_INVALID_CODES" for a code that cannot be hashed
UnhashableExc == Exc("TypeError", <<"unhashable type: 'list'">>)

\* the handlers of _get_token without the catch-all
GetTokenExceptNoCatchAll(e) ==
    CASE e.cls = "TimeoutError" -> Exc("UpdateFailed", MsgTimeout)
      [] e.cls = "ClientError" -> Exc("UpdateFailed", MsgNetwork(e.msg))
      [] OTHER -> e

\* the except clauses of _get_token, in their order
GetTokenExcept(e) ==
    CASE e.cls = "TimeoutError" -> Exc("UpdateFailed", MsgTimeout)
      [] e.cls = "ClientError" -> Exc("UpdateFailed", MsgNetwork(e.msg))
      [] e.cls = "UpdateFailed" -> e
      [] OTHER -> Exc("UpdateFailed", MsgUnexpected(e.msg))

\* _handle_token_refresh_and_retry without its except clause
RetryExceptPassesAll(e) == e

\* the except clause of _handle_token_refresh_and_retry around the retried
\* request
RetryExcept(e) ==
    IF e.cls = "ClientError"
    THEN Exc("UpdateFailed", MsgNetworkRetry(e.msg))
    ELSE e

\* the handlers of get_devices without the clause that re-raises UpdateFailed
GetDevicesExceptRewraps(e) ==
    CASE e.cls = "TimeoutError" -> Exc("UpdateFailed", MsgTimeout)
      [] e.cls = "ClientError" -> Exc("UpdateFailed", MsgNetwork(e.msg))
      [] OTHER -> Exc("UpdateFailed", MsgUnexpected(e.msg))

\* the except clauses of get_devices, in their order
GetDevicesExcept(e) ==
    CASE e.cls = "TimeoutError" -> Exc("UpdateFailed", MsgTimeout)
      [] e.cls = "ClientError" -> Exc("UpdateFailed", MsgNetwork(e.msg))
      [] e.cls = "UpdateFailed" -> e
      [] OTHER -> Exc("UpdateFailed", MsgUnexpected(e.msg))

\* the exception that leaves get_devices when e is raised at position p of
\* the call: the first login is awaited before the try block, the retried
\* request inside both try blocks, everything else inside the outer one
Escapes(e, p) ==
    CASE p = "login" -> e
      [] p = "retry" -> GetDevicesExcept(RetryExcept(e))
      [] OTHER -> GetDevicesExcept(e)

\* what get_devices hands on when its body returns or raises o at position p
Thrown(o, p) ==
    IF o.kind = "fail" THEN RaisedExc(Escapes(Exc(o.cls, o.msg), p)) ELSE o

----------------------------------------------------------------------------
(* What the server and the network can do *)

Tokens == {PyStr("tokA"), PyStr("tokB")}
LoginStatuses == {200, 401, 404, 500, 503}
DevStatuses == {200, 429, 500, 503}
Faults == {"timeout", "client_error", "unexpected"}

NonDictKinds == {"invalid_json", "list", "str"}

LoginBody(k, tok, m1, m2) ==
    [kind |-> k, token |-> tok, msg |-> m1, message |-> m2]

LoginBodies ==
    {LoginBody("dict", tok, NoText, NoText) : tok \in Tokens}
    \cup {LoginBody("dict", tok, m1, m2) :
            tok \in {PyNone, PyStr("")},
            m1 \in {NoText, Text(<<>>), Text(<<"bad login">>)},
            m2 \in {NoText, Text(<<"try later">>)}}
    \cup {LoginBody(k, PyNone, NoText, NoText) : k \in NonDictKinds}

LoginResponses == [status : LoginStatuses, body : LoginBodies]

Codes ==
    TOKEN_INVALID_CODES
    \cup {PyInt(0), PyInt(8), PyStr("8"), PyNone, PyList}

ServerDevices == {Device("d1", PyStr("HME-5")), Device("d2", PyStr("HME-3"))}

RECURSIVE SeqsUpTo(_, _)
SeqsUpTo(S, n) ==
    IF n = 0 THEN {<<>>}
    ELSE LET shorter == SeqsUpTo(S, n - 1)
         IN  shorter \cup {Append(q, x) : q \in shorter, x \in S}

DevBody(k, c, d, m1, m2) ==
    [kind |-> k, code |-> c, data |-> d, msg |-> m1, message |-> m2]

DevBodies ==
    {DevBody("dict", c, DataList(ds), NoText, NoText) :
        c \in Codes, ds \in SeqsUpTo(ServerDevices, MaxDevs)}
    \cup {DevBody("dict", c, NotAList, NoText, NoText) : c \in Codes}
    \cup {DevBody("dict", c, NoData, m1, m2) :
            c \in Codes,
            m1 \in {NoText, Text(<<>>), Text(<<"weird">>)},
            m2 \in {NoText, Text(<<"try later">>)}}
    \cup {DevBody(k, PyNone, NoData, NoText, NoText) : k \in NonDictKinds}

\* what a failing gateway sends with a 5xx status: an error page, or a body
\* that would be a good answer had the status been another
ErrorPageBodies ==
    {DevBody("invalid_json", PyNone, NoData, NoText, NoText),
     DevBody("dict", PyInt(0), DataList(<<Device("d1", PyStr("HME-5"))>>),
             NoText, NoText)}

DevResponses ==
    {r \in [status : DevStatuses, body : DevBodies] :
        r.status < 500 \/ r.body \in ErrorPageBodies}

----------------------------------------------------------------------------
(* History of the current call *)

LoginReq == [kind |-> "login", tok |-> PyNone]
DevReq(tok) == [kind |-> "devices", tok |-> tok]

NoLoginResp == [status |-> 0, body |-> LoginBody("invalid_json", PyNone, NoText, NoText)]
NoDevResp == [status |-> 0, body |-> DevBody("invalid_json", PyNone, NoData, NoText, NoText)]

NoLogin == [has |-> FALSE, fault |-> "none", resp |-> NoLoginResp,
            parsed |-> FALSE]
NoFirst == [has |-> FALSE, status |-> 0, code |-> PyNone]
NoDev == [has |-> FALSE, fault |-> "none", resp |-> NoDevResp,
          parsed |-> FALSE, examined |-> FALSE]

----------------------------------------------------------------------------
(* MarstekCoordinator.__init__ *)

NotPublished == [has |-> FALSE, devices |-> <<>>]      \* data is None
Published(ds) == [has |-> TRUE, devices |-> ds]

NoLatency == [has |-> FALSE, tenths |-> 0]              \* last_latency is None
Latency(t) == [has |-> TRUE, tenths |-> t]              \* t / 10 milliseconds

NoResult == [kind |-> "none", cls |-> "", msg |-> <<>>]

CoordInit ==
    /\ cpc = "idle"
    /\ data = NotPublished
    /\ last_update_success = TRUE
    /\ last_latency = NoLatency
    /\ result = NoResult
    /\ elapsed = 0
    /\ succeeded = FALSE
    /\ pending = {}
    /\ inflight = 0

----------------------------------------------------------------------------
(* The integration before any entry is configured *)

EntryIds == {1, 2}
ApiIds == {1, 2}

NoInt == [has |-> FALSE, val |-> 0]             \* no "scan_interval" key
SomeInt(n) == [has |-> TRUE, val |-> n]

\* a place for a config entry: state "absent" while there is none
NoEntry ==
    [state |-> "absent", cred |-> "", interval |-> NoInt, options |-> NoInt,
     devices |-> FALSE, reauth |-> FALSE]

\* no coordinator stored for the entry id
NoCoord ==
    [has |-> FALSE, api |-> 0, update_interval |-> 0, data |-> NotPublished,
     last_update_success |-> TRUE, last_latency |-> NoLatency]

\* the last step of the integration: which handler ran for which entry, what
\* the server did (cause), what the handler raised (cls, msg) or showed
\* (error), the get_devices calls it made and the interval it was given
NoStep ==
    [kind |-> "none", actor |-> 0, cause |-> "", cls |-> "", msg |-> <<>>,
     error |-> "", calls |-> 0, input |-> 0]

\* no sensor platform set up, no sensor read
NoEntities == [state |-> "none", list |-> <<>>]
NoReading ==
    [has |-> FALSE, entity |-> [cls |-> "", devid |-> PyNone, key |-> ""],
     value |-> PyNone]

SensInit ==
    /\ entities = NoEntities
    /\ shown = NoReading

IntInit ==
    /\ entries = [e \in EntryIds |-> NoEntry]
    /\ registry = [e \in EntryIds |-> NoCoord]
    /\ apis = [a \in ApiIds |-> PyNone]
    /\ last = NoStep

----------------------------------------------------------------------------
(* MarstekAPI.__init__ *)

Init ==
    /\ token = PyNone
    /\ pc = "idle"
    /\ outcome = NoOutcome
    /\ prevKind = "none"
    /\ tokenAtStart = PyNone
    /\ reqs = <<>>
    /\ lastLogin = NoLogin
    /\ firstDev = NoFirst
    /\ lastDev = NoDev
    /\ CoordInit
    /\ SensInit
    /\ IntInit

----------------------------------------------------------------------------
(* MarstekAPI.get_devices, one action per suspension point; the actions     *)
(* say nothing about the variables of the coordinator                       *)

\* the code-8 test without the assignment that clears the token
TokenAfterExamineKeeps(body, tok) == tok

\* the token cleared on every response without a data field
TokenAfterExamineClearsNoData(body, tok) ==
    IF PyStrOf(body.code) = "8" \/ ~body.data.present THEN PyNone ELSE tok

\* the token cleared for the number 8 only, not for the string "8"
TokenAfterExamineNumberOnly(body, tok) ==
    IF body.code = PyInt(8) THEN PyNone ELSE tok

\* the stored token after the code-8 test of get_devices
TokenAfterExamine(body, tok) ==
    IF PyStrOf(body.code) = "8" THEN PyNone ELSE tok

\* _get_token dropping the stored token when the login fails
TokenAfterLoginClears(r, tok) == IF r.ok THEN r.val ELSE PyNone

\* "self._token = token" of _get_token, reached only when nothing was
\* raised; r is what GetToken made of the response
TokenAfterLogin(r, tok) == IF r.ok THEN r.val ELSE tok

\* a login at the start of every call
NeedsLoginAlways(tok) == TRUE

\* no login at the start of any call
NeedsLoginNever(tok) == FALSE

\* "if not self._token": the call starts with a login
NeedsLogin(tok) == ~Truthy(tok)

\* the sentinel test answering yes to every code but the number 0
TokenInvalidAnyNonZero(code) == code # PyInt(0)

\* the sentinel test on the two spellings of 401 only
TokenInvalidExpiredOnly(code) == code \in {PyInt(401), PyStr("401")}

\* the sentinel test with the permission code among the sentinels
TokenInvalidOrDenied(code) ==
    code \in TOKEN_INVALID_CODES \cup {PyInt(8), PyStr("8")}

\* the sentinel test on numeric codes only
TokenInvalidNumeric(code) == code \in TOKEN_INVALID_CODES /\ code.t = "int"

\* "if code in TOKEN_INVALID_CODES"
TokenInvalid(code) == code \in TOKEN_INVALID_CODES

\* the sentinel test repeated on the retried response
MayRefreshAgain(p) == p \in {"fetch", "retry"}

\* the sentinel test is made once, on the response at position p = "fetch"
MayRefresh(p) == p = "fetch"

\* get_devices is called: the token test and the first request
GetDevices ==
    /\ pc = "idle"
    /\ prevKind' = (IF lastDev.examined /\ PyStrOf(lastDev.resp.body.code) = "8"
                     THEN "denied" ELSE outcome.kind)
    /\ outcome' = NoOutcome
    /\ tokenAtStart' = token
    /\ lastLogin' = NoLogin
    /\ firstDev' = NoFirst
    /\ lastDev' = NoDev
    /\ IF NeedsLogin(token)
       THEN pc' = "login" /\ reqs' = <<LoginReq>>
       ELSE pc' = "fetch" /\ reqs' = <<DevReq(token)>>
    /\ UNCHANGED token

\* the login request is answered: _get_token stores the token or raises; on
\* success the caller goes on to its device-list request
LoginResponse(resp) ==
    /\ pc \in {"login", "refresh"}
    /\ LET r == GetToken(resp)
       IN  /\ lastLogin' = [has |-> TRUE, fault |-> "none", resp |-> resp,
                            parsed |-> r.parsed]
           /\ token' = TokenAfterLogin(r, token)
           /\ IF r.ok
              THEN /\ pc' = (IF pc = "login" THEN "fetch" ELSE "retry")
                   /\ reqs' = Append(reqs, DevReq(token'))
                   /\ UNCHANGED outcome
              ELSE /\ pc' = "idle"
                   /\ outcome' = RaisedExc(Escapes(
                          GetTokenExcept(Exc("UpdateFailed", r.msg)), pc))
                   /\ UNCHANGED reqs
    /\ UNCHANGED <<prevKind, tokenAtStart, firstDev, lastDev>>

\* the login request times out, fails in the network or raises
LoginFault(fault) ==
    /\ pc \in {"login", "refresh"}
    /\ lastLogin' = [has |-> TRUE, fault |-> fault, resp |-> NoLoginResp,
                     parsed |-> FALSE]
    /\ pc' = "idle"
    /\ outcome' = RaisedExc(Escapes(GetTokenExcept(FaultExc(fault)), pc))
    /\ UNCHANGED <<token, reqs, prevKind, tokenAtStart, firstDev, lastDev>>

\* a device-list request is answered: the rest of get_devices up to the
\* refresh login or to the end of the call
DevicesResponse(resp) ==
    /\ pc \in {"fetch", "retry"}
    /\ LET r == FetchDevicesWithToken(resp)
           code == resp.body.code
           refresh == r.ok /\ MayRefresh(pc) /\ Hashable(code) /\ TokenInvalid(code)
           unhashable == r.ok /\ MayRefresh(pc) /\ ~Hashable(code)
       IN  /\ firstDev' = (IF pc = "fetch"
                           THEN [has |-> r.ok, status |-> resp.status,
                                 code |-> (IF r.ok THEN code ELSE PyNone)]
                           ELSE firstDev)
           /\ lastDev' = (IF refresh THEN lastDev
                          ELSE [has |-> TRUE, fault |-> "none", resp |-> resp,
                                parsed |-> r.parsed,
                                examined |-> r.ok /\ ~unhashable])
           /\ IF ~r.ok
              THEN /\ pc' = "idle"
                   /\ outcome' = RaisedExc(Escapes(Exc("UpdateFailed", r.msg), pc))
                   /\ UNCHANGED <<token, reqs>>
              ELSE IF unhashable
              THEN /\ pc' = "idle"
                   /\ outcome' = RaisedExc(Escapes(UnhashableExc, pc))
                   /\ UNCHANGED <<token, reqs>>
              ELSE IF refresh
              THEN /\ pc' = "refresh"
                   /\ reqs' = Append(reqs, LoginReq)
                   /\ UNCHANGED <<token, outcome>>
              ELSE /\ pc' = "idle"
                   /\ outcome' = Thrown(ExamineData(resp.body), "fetch")
                   /\ token' = TokenAfterExamine(resp.body, token)
                   /\ UNCHANGED reqs
    /\ UNCHANGED <<prevKind, tokenAtStart, lastLogin>>

\* a device-list request times out, fails in the network or raises
DevicesFault(fault) ==
    /\ pc \in {"fetch", "retry"}
    /\ firstDev' = (IF pc = "fetch" THEN NoFirst ELSE firstDev)
    /\ lastDev' = [has |-> TRUE, fault |-> fault, resp |-> NoDevResp,
                   parsed |-> FALSE, examined |-> FALSE]
    /\ pc' = "idle"
    /\ outcome' = RaisedExc(Escapes(FaultExc(fault), pc))
    /\ UNCHANGED <<token, reqs, prevKind, tokenAtStart, lastLogin>>

\* the client called on its own, without a coordinator
Next ==
    \/ GetDevices /\ UNCHANGED <<coordVars, intVars, sensVars>>
    \/ \E resp \in LoginResponses : LoginResponse(resp) /\ UNCHANGED <<coordVars, intVars, sensVars>>
    \/ \E fault \in Faults : LoginFault(fault) /\ UNCHANGED <<coordVars, intVars, sensVars>>
    \/ \E resp \in DevResponses : DevicesResponse(resp) /\ UNCHANGED <<coordVars, intVars, sensVars>>
    \/ \E fault \in Faults : DevicesFault(fault) /\ UNCHANGED <<coordVars, intVars, sensVars>>

Spec == Init /\ [][Next]_vars

----------------------------------------------------------------------------
(* get_devices on a held token, answered with a well-formed device list:    *)
(* the specification under which _filter_devices is exercised on longer     *)
(* lists and on more kinds of device.                                       *)

FilterDevices4 ==
    ServerDevices \cup {Device("d3", PyNone), Device("d4", PyStr("HME-4"))}

FilterResponses ==
    {[status |-> st, body |-> DevBody("dict", PyInt(0), DataList(ds), NoText, NoText)] :
        st \in {200, 429}, ds \in SeqsUpTo(FilterDevices4, MaxFilterLen)}

\* a client that holds a token and has just issued its device-list request
InitFilter ==
    /\ token \in Tokens
    /\ pc = "fetch"
    /\ outcome = NoOutcome
    /\ prevKind = "ok"
    /\ tokenAtStart = token
    /\ reqs = <<DevReq(token)>>
    /\ lastLogin = NoLogin
    /\ firstDev = NoFirst
    /\ lastDev = NoDev
    /\ CoordInit
    /\ SensInit
    /\ IntInit

ListAnswer == \E resp \in FilterResponses : DevicesResponse(resp)

NextFilter ==
    \/ GetDevices /\ UNCHANGED <<coordVars, intVars, sensVars>>
    \/ ListAnswer /\ UNCHANGED <<coordVars, intVars, sensVars>>

SpecFilter == InitFilter /\ [][NextFilter]_vars

----------------------------------------------------------------------------
(* MarstekCoordinator: one refresh cycle *)

\* round(x, 1) of the seconds, without the factor 1000
RoundTenthsOfSecond(us) == (us + 50000) \div 100000

\* round(x * 1000, 1) of x = us microseconds, in tenths of a millisecond; the
\* elapsed times of ElapsedUs lie on no tie between two tenths
RoundTenths(us) == (us + 50) \div 100

\* the test for "HTTP 401" without the credential message
IsAuthMessageHttpOnly(msg) == Contains(msg, <<"HTTP ", "401">>)

\* the test for credential failures without the "HTTP 401" alternative
IsAuthMessageCredentialsOnly(msg) ==
    Contains(msg, <<"Invalid email or password">>)

\* '"Invalid email or password" in error_msg or "HTTP 401" in error_msg'
IsAuthMessage(msg) ==
    \/ Contains(msg, <<"Invalid email or password">>)
    \/ Contains(msg, <<"HTTP ", "401">>)

ReturnValue(ds, lat) ==
    [kind |-> "return", cls |-> "", msg |-> <<>>, devices |-> ds, latency |-> lat]
RaiseValue(c, m, lat) ==
    [kind |-> "raise", cls |-> c, msg |-> m, devices |-> <<>>, latency |-> lat]

\* _async_update_data answering a failed call with an empty list
AsyncUpdateDataReturnsEmpty(o, us, lat) ==
    IF o.kind = "fail" THEN ReturnValue(<<>>, lat)
    ELSE ReturnValue(o.devices, Latency(RoundTenths(us)))

\* _async_update_data handing on the first device only
AsyncUpdateDataFirstOnly(o, us, lat) ==
    IF o.kind = "fail"
    THEN IF o.cls # "UpdateFailed" THEN RaiseValue(o.cls, o.msg, lat)
         ELSE IF IsAuthMessage(o.msg)
              THEN RaiseValue("ConfigEntryAuthFailed", o.msg, lat)
              ELSE RaiseValue("UpdateFailed", o.msg, lat)
    ELSE ReturnValue(IF o.devices = <<>> THEN <<>> ELSE <<Head(o.devices)>>,
                     Latency(RoundTenths(us)))

\* _async_update_data taking an empty list for a failure
AsyncUpdateDataRaisesOnEmpty(o, us, lat) ==
    IF o.kind = "fail"
    THEN IF o.cls # "UpdateFailed" THEN RaiseValue(o.cls, o.msg, lat)
         ELSE IF IsAuthMessage(o.msg)
              THEN RaiseValue("ConfigEntryAuthFailed", o.msg, lat)
              ELSE RaiseValue("UpdateFailed", o.msg, lat)
    ELSE IF o.devices = <<>>
         THEN RaiseValue("UpdateFailed", <<"No devices">>, lat)
         ELSE ReturnValue(o.devices, Latency(RoundTenths(us)))

\* _async_update_data storing the elapsed time of a failed call too
AsyncUpdateDataTimesFailures(o, us, lat) ==
    IF o.kind = "fail"
    THEN IF o.cls # "UpdateFailed"
         THEN RaiseValue(o.cls, o.msg, Latency(RoundTenths(us)))
         ELSE IF IsAuthMessage(o.msg)
              THEN RaiseValue("ConfigEntryAuthFailed", o.msg, Latency(RoundTenths(us)))
              ELSE RaiseValue("UpdateFailed", o.msg, Latency(RoundTenths(us)))
    ELSE ReturnValue(o.devices, Latency(RoundTenths(us)))

\* _async_update_data from the end of its await: o is what get_devices
\* returned or raised, us the time since start, lat the stored latency.  The
\* result carries the value of last_latency the method leaves behind.
AsyncUpdateData(o, us, lat) ==
    IF o.kind = "fail"
    THEN IF o.cls # "UpdateFailed" THEN RaiseValue(o.cls, o.msg, lat)
         ELSE IF IsAuthMessage(o.msg)
              THEN RaiseValue("ConfigEntryAuthFailed", o.msg, lat)
              ELSE RaiseValue("UpdateFailed", o.msg, lat)
    ELSE ReturnValue(o.devices, Latency(RoundTenths(us)))

\* the refresh of the host's DataUpdateCoordinator around _async_update_data:
\* a returned list is published and the cycle marked successful, a raised
\* failure marks the cycle failed and leaves the published list alone
HostData(r, d) == IF r.kind = "return" THEN Published(r.devices) ELSE d
HostSuccess(r) == r.kind = "return"

HostRefresh(r) ==
    /\ data' = HostData(r, data)
    /\ last_update_success' = HostSuccess(r)

\* the cycle from the moment get_devices hands back control
AfterAwait(us) ==
    IF pc' = "idle"
    THEN LET r == AsyncUpdateData(outcome', us, last_latency)
         IN  /\ cpc' = "idle"
             /\ last_latency' = r.latency
             /\ result' = [kind |-> r.kind, cls |-> r.cls, msg |-> r.msg]
             /\ elapsed' = us
             /\ succeeded' = (succeeded \/ r.kind = "return")
             /\ inflight' = inflight - 1
             /\ UNCHANGED pending
             /\ HostRefresh(r)
    ELSE UNCHANGED coordVars

\* what the server and the network do under SpecCoord
ElapsedUs == {0, 1234, 250049}

CoordLoginResponses ==
    {[status |-> 200, body |-> LoginBody("dict", PyStr("tokA"), NoText, NoText)],
     [status |-> 200,
      body |-> LoginBody("dict", PyNone,
                         Text(<<"HTTP ", "401", " Unauthorized">>), NoText)],
     [status |-> 200, body |-> LoginBody("dict", PyNone, Text(<<"bad login">>), NoText)],
     [status |-> 401, body |-> LoginBody("invalid_json", PyNone, NoText, NoText)],
     [status |-> 503, body |-> LoginBody("invalid_json", PyNone, NoText, NoText)]}

CoordDevBodies ==
    {DevBody("dict", PyInt(0),
             DataList(<<Device("d1", PyStr("HME-5")), Device("d2", PyStr("HME-3")),
                        Device("d3", PyNone)>>), NoText, NoText),
     DevBody("dict", PyInt(0), DataList(<<Device("d2", PyStr("HME-3"))>>),
             NoText, NoText),
     DevBody("dict", PyInt(0), NotAList, NoText, NoText),
     DevBody("dict", PyInt(0), NoData, Text(<<"weird">>), NoText),
     DevBody("dict", PyInt(0), NoData, Text(<<"Invalid email or password">>), NoText),
     DevBody("dict", PyInt(-1), NoData, NoText, NoText),
     DevBody("dict", PyStr("8"), NoData, NoText, NoText),
     DevBody("invalid_json", PyNone, NoData, NoText, NoText)}

CoordDevResponses ==
    [status : {200}, body : CoordDevBodies]
    \cup {[status |-> 500,
           body |-> DevBody("invalid_json", PyNone, NoData, NoText, NoText)]}

RefreshKinds == {"scheduled", "manual"}

\* the timer fires or a refresh is requested by hand; a request of a kind
\* that is already waiting is coalesced with it
RefreshRequested(kind) ==
    /\ kind \notin pending
    /\ pending' = pending \cup {kind}
    /\ UNCHANGED <<token, pc, outcome, prevKind, tokenAtStart, reqs,
                   lastLogin, firstDev, lastDev>>
    /\ UNCHANGED <<cpc, data, last_update_success, last_latency, result,
                   elapsed, succeeded, inflight>>

\* a host that starts a waiting refresh whatever is in flight
HostMayStartUnlocked(n) == n < MaxInFlight

\* the lock of the host's refresh: a waiting refresh starts only when no
\* cycle is in flight
HostMayStart(n) == n = 0

\* the host starts a waiting refresh: _async_update_data is called, start is
\* taken and get_devices awaited.  A coroutine entering while another one is
\* suspended in get_devices is counted and followed no further.
AsyncUpdateStart ==
    /\ HostMayStart(inflight)
    /\ \E kind \in pending : pending' = pending \ {kind}
    /\ inflight' = inflight + 1
    /\ IF cpc = "idle"
       THEN /\ GetDevices
            /\ cpc' = "awaiting"
            /\ result' = NoResult
            /\ elapsed' = 0
            /\ UNCHANGED <<data, last_update_success, last_latency, succeeded>>
       ELSE /\ UNCHANGED <<token, pc, outcome, prevKind, tokenAtStart, reqs,
                           lastLogin, firstDev, lastDev>>
            /\ UNCHANGED <<cpc, data, last_update_success, last_latency,
                           result, elapsed, succeeded>>

NextCoord ==
    \/ \E kind \in RefreshKinds : RefreshRequested(kind) /\ UNCHANGED <<intVars, sensVars>>
    \/ AsyncUpdateStart /\ UNCHANGED <<intVars, sensVars>>
    \/ \E resp \in CoordLoginResponses, us \in ElapsedUs :
          /\ cpc = "awaiting" /\ LoginResponse(resp) /\ AfterAwait(us)
          /\ UNCHANGED <<intVars, sensVars>>
    \/ \E fault \in Faults, us \in ElapsedUs :
          /\ cpc = "awaiting" /\ LoginFault(fault) /\ AfterAwait(us)
          /\ UNCHANGED <<intVars, sensVars>>
    \/ \E resp \in CoordDevResponses, us \in ElapsedUs :
          /\ cpc = "awaiting" /\ DevicesResponse(resp) /\ AfterAwait(us)
          /\ UNCHANGED <<intVars, sensVars>>
    \/ \E fault \in Faults, us \in ElapsedUs :
          /\ cpc = "awaiting" /\ DevicesFault(fault) /\ AfterAwait(us)
          /\ UNCHANGED <<intVars, sensVars>>

SpecCoord == Init /\ [][NextCoord]_vars

----------------------------------------------------------------------------
(* The client alone again, with fairness: every request is awaited under    *)
(* asyncio.timeout, so it is answered or ends in a fault, the timeout being *)
(* one.  The answers are those of SpecCoord and a login with a second       *)
(* token.                                                                   *)

AnswersLive ==
    \/ \E resp \in CoordLoginResponses
                    \cup {[status |-> 200,
                           body |-> LoginBody("dict", PyStr("tokB"), NoText, NoText)]} :
          LoginResponse(resp) /\ UNCHANGED <<coordVars, intVars, sensVars>>
    \/ \E fault \in Faults :
          LoginFault(fault) /\ UNCHANGED <<coordVars, intVars, sensVars>>
    \/ \E resp \in CoordDevResponses :
          DevicesResponse(resp) /\ UNCHANGED <<coordVars, intVars, sensVars>>
    \/ \E fault \in Faults :
          DevicesFault(fault) /\ UNCHANGED <<coordVars, intVars, sensVars>>

NextLive ==
    \/ GetDevices /\ UNCHANGED <<coordVars, intVars, sensVars>>
    \/ AnswersLive

SpecLive == Init /\ [][NextLive]_vars /\ WF_vars(AnswersLive)

----------------------------------------------------------------------------
(* MarstekAPI.get_devices as one function of the token it starts with and   *)
(* of what the server and the network answer: the same steps as the actions *)
(* above, for the callers that are followed as a whole                      *)

Answered(resp) == [fault |-> "none", resp |-> resp]
LoginFaulted(f) == [fault |-> f, resp |-> NoLoginResp]
DevFaulted(f) == [fault |-> f, resp |-> NoDevResp]

NoExc == Exc("", <<>>)

\* _get_token at position p of the call, answered by ev
LoginStep(ev, p) ==
    IF ev.fault # "none"
    THEN [ok |-> FALSE, tok |-> PyNone,
          exc |-> Escapes(GetTokenExcept(FaultExc(ev.fault)), p)]
    ELSE LET r == GetToken(ev.resp)
         IN  IF r.ok
             THEN [ok |-> TRUE, tok |-> r.val, exc |-> NoExc]
             ELSE [ok |-> FALSE, tok |-> PyNone,
                   exc |-> Escapes(GetTokenExcept(Exc("UpdateFailed", r.msg)), p)]

\* _fetch_devices_with_token at position p of the call, answered by ev
DevStep(ev, p) ==
    IF ev.fault # "none"
    THEN [ok |-> FALSE, body |-> NoDevResp.body,
          exc |-> Escapes(FaultExc(ev.fault), p)]
    ELSE LET r == FetchDevicesWithToken(ev.resp)
         IN  IF r.ok
             THEN [ok |-> TRUE, body |-> ev.resp.body, exc |-> NoExc]
             ELSE [ok |-> FALSE, body |-> NoDevResp.body,
                   exc |-> Escapes(Exc("UpdateFailed", r.msg), p)]

\* what a call leaves behind: the stored token, what it returned or raised
\* and the number of requests it made
CallResult(tok, o, n) == [token |-> tok, outcome |-> o, requests |-> n]

\* get_devices from the code-8 test on
ExamineStep(body, tok, n) ==
    CallResult(TokenAfterExamine(body, tok),
               Thrown(ExamineData(body), "fetch"), n)

\* get_devices started with token tok and answered by the events of sc
RunGetDevices(tok, sc) ==
    LET first == NeedsLogin(tok)
        n0 == IF first THEN 1 ELSE 0
        l1 == IF first THEN LoginStep(sc.login1, "login")
              ELSE [ok |-> TRUE, tok |-> tok, exc |-> NoExc]
        d1 == DevStep(sc.dev1, "fetch")
        l2 == LoginStep(sc.login2, "refresh")
        d2 == DevStep(sc.dev2, "retry")
    IN  IF ~l1.ok THEN CallResult(tok, RaisedExc(l1.exc), n0)
        ELSE IF ~d1.ok THEN CallResult(l1.tok, RaisedExc(d1.exc), n0 + 1)
        ELSE IF ~Hashable(d1.body.code)
             THEN CallResult(l1.tok, RaisedExc(Escapes(UnhashableExc, "fetch")),
                             n0 + 1)
        ELSE IF ~TokenInvalid(d1.body.code)
             THEN ExamineStep(d1.body, l1.tok, n0 + 1)
        ELSE IF ~l2.ok THEN CallResult(l1.tok, RaisedExc(l2.exc), n0 + 2)
        ELSE IF ~d2.ok THEN CallResult(l2.tok, RaisedExc(d2.exc), n0 + 3)
        ELSE ExamineStep(d2.body, l2.tok, n0 + 3)

\* the answers of the server
LoginOk(tok) ==
    Answered([status |-> 200, body |-> LoginBody("dict", tok, NoText, NoText)])
LoginStatus(st) ==
    Answered([status |-> st,
              body |-> LoginBody("invalid_json", PyNone, NoText, NoText)])
DevList(ds) ==
    Answered([status |-> 200,
              body |-> DevBody("dict", PyInt(0), DataList(ds), NoText, NoText)])
DevCode(c) ==
    Answered([status |-> 200, body |-> DevBody("dict", c, NoData, NoText, NoText)])
DevNoData(m) ==
    Answered([status |-> 200,
              body |-> DevBody("dict", PyInt(0), NoData, Text(m), NoText)])
DevStatus(st) ==
    Answered([status |-> st,
              body |-> DevBody("invalid_json", PyNone, NoData, NoText, NoText)])

\* one way an exchange can go, named by what is wrong on the server's side:
\* the answers to the first login, the first request, the refresh login and
\* the retried request, each used only if the call gets that far
Script(c, l1, d1, l2, d2) ==
    [cause |-> c, login1 |-> l1, dev1 |-> d1, login2 |-> l2, dev2 |-> d2]

DevD1 == Device("d1", PyStr("HME-5"))
DevD2 == Device("d2", PyStr("HME-3"))

\* a login that fails in the way ev says, on a fresh and on a held token
LoginFails(c, ev) == Script(c, ev, DevCode(PyInt(-1)), ev, DevFaulted("timeout"))
\* a device-list answer ev after a good login, or on a held token
DevAnswers(c, tok, ev) == Script(c, LoginOk(tok), ev, LoginOk(tok), ev)

\* what the server does to an account: one script of each cause; the list of
\* "ok" holds a device of an ignored type only, the malformed answer repeats
\* the text of the credential failure
EntryScripts ==
    {DevAnswers("ok", PyStr("tokA"), DevList(<<DevD2>>)),
     Script("expired", LoginOk(PyStr("tokA")), DevCode(PyStr("401")),
            LoginOk(PyStr("tokB")), DevList(<<DevD1>>)),
     LoginFails("credentials", LoginStatus(401)),
     LoginFails("network", LoginFaulted("client_error")),
     DevAnswers("unavailable", PyStr("tokA"), DevStatus(503)),
     DevAnswers("denied", PyStr("tokA"), DevCode(PyStr("8"))),
     DevAnswers("malformed", PyStr("tokA"),
                DevNoData(<<"Invalid email or password">>))}

GoodCauses == {"ok", "expired"}

\* get_devices for every token a client can hold under these scripts and
\* every script, worked out once
Calls ==
    [tok \in {PyNone, PyStr("tokA"), PyStr("tokB")}, sc \in EntryScripts |->
        RunGetDevices(tok, sc)]

----------------------------------------------------------------------------
(* __init__.py: async_setup_entry and async_unload_entry, and the refresh   *)
(* cycles of the coordinators they keep in hass.data[DOMAIN]                *)

DEFAULT_SCAN_INTERVAL == 60

\* the lookup with data and options the wrong way round
ScanIntervalDataFirst(entry) ==
    IF entry.interval.has THEN entry.interval.val
    ELSE IF entry.options.has THEN entry.options.val
    ELSE DEFAULT_SCAN_INTERVAL

\* entry.options.get("scan_interval",
\*                   entry.data.get("scan_interval", DEFAULT_SCAN_INTERVAL))
ScanInterval(entry) ==
    IF entry.options.has THEN entry.options.val
    ELSE IF entry.interval.has THEN entry.interval.val
    ELSE DEFAULT_SCAN_INTERVAL

\* the clients that a stored coordinator holds
ApisInUse(reg) == {reg[e].api : e \in {f \in EntryIds : reg[f].has}}

\* every setup handing the same client to its coordinator
NewApiShared(reg) == 1

\* MarstekAPI(session, email, password): an object of its own, here the
\* first identity that no stored coordinator holds
NewApi(reg) ==
    CHOOSE a \in ApiIds \ ApisInUse(reg) :
        \A b \in ApiIds \ ApisInUse(reg) : a <= b

\* MarstekCoordinator(hass, api, scan_interval)
NewCoord(a, interval) ==
    [has |-> TRUE, api |-> a, update_interval |-> interval,
     data |-> NotPublished, last_update_success |-> TRUE,
     last_latency |-> NoLatency]

\* one refresh of coordinator c whose client holds token tok: get_devices
\* answered by sc, _async_update_data after us microseconds, and the host's
\* bookkeeping of the result
CycleOn(c, tok, sc, us) ==
    LET call == Calls[tok, sc]
        r == AsyncUpdateData(call.outcome, us, c.last_latency)
    IN  [coord |-> [c EXCEPT !.data = HostData(r, c.data),
                             !.last_update_success = HostSuccess(r),
                             !.last_latency = r.latency],
         token |-> call.token, r |-> r, calls |-> 1]

\* what async_config_entry_first_refresh raises for a failed first cycle:
\* ConfigEntryAuthFailed as it is, an UpdateFailed either as it is or, when
\* the host wraps it, as ConfigEntryNotReady
FirstRefreshRaises(r, wraps) ==
    IF r.cls = "UpdateFailed" /\ wraps
    THEN Exc("ConfigEntryNotReady", r.msg)
    ELSE Exc(r.cls, r.msg)

\* "except UpdateFailed as err" of async_setup_entry
SetupExcept(x) ==
    IF x.cls # "UpdateFailed" THEN x
    ELSE IF Contains(x.msg, <<"Invalid email or password">>)
         THEN Exc("ConfigEntryAuthFailed", x.msg)
         ELSE Exc("ConfigEntryNotReady", x.msg)

\* the state in which the host leaves an entry whose setup raised class c
SetupState(c) ==
    CASE c = "ConfigEntryAuthFailed" -> "setup_error"
      [] c = "ConfigEntryNotReady" -> "setup_retry"
      [] OTHER -> "setup_error"

\* the states from which the host sets an entry up: at start-up or after a
\* reload, at its automatic retry, and after a finished re-authentication
CanSetup(entry) == entry.state \in {"not_loaded", "setup_retry"}

\* hass.data[DOMAIN][entry.entry_id] = coordinator, reached only when the
\* first refresh did not raise
SetupRegistry(reg, e, c0, c1, ok) ==
    IF ok THEN [reg EXCEPT ![e] = c1] ELSE reg

\* async_setup_entry for entry e
SetupEntry(e, sc, us, wraps) ==
    /\ CanSetup(entries[e])
    /\ \E a \in {NewApi(registry)} :
       \E c0 \in {NewCoord(a, ScanInterval(entries[e]))} :
       \E cy \in {CycleOn(c0, PyNone, sc, us)} :
       \E ok \in {cy.r.kind = "return"} :
       \E x \in {IF ok THEN NoExc
                 ELSE SetupExcept(FirstRefreshRaises(cy.r, wraps))} :
           /\ registry' = SetupRegistry(registry, e, c0, cy.coord, ok)
           /\ apis' = IF ok THEN [apis EXCEPT ![a] = cy.token] ELSE apis
           /\ entries' =
                [entries EXCEPT
                   ![e].state = IF ok THEN "loaded" ELSE SetupState(x.cls),
                   ![e].devices = IF ok THEN cy.r.devices # <<>> ELSE @,
                   ![e].reauth = IF ok THEN @
                                 ELSE @ \/ x.cls = "ConfigEntryAuthFailed"]
           /\ last' = [NoStep EXCEPT !.kind = "setup", !.actor = e,
                                     !.cause = sc.cause, !.cls = x.cls,
                                     !.msg = x.msg, !.calls = cy.calls]

\* "if unload_ok: hass.data[DOMAIN].pop(entry.entry_id)" without the test
UnloadRegistryAlways(reg, e, unload_ok) == [reg EXCEPT ![e] = NoCoord]

\* "if unload_ok: hass.data[DOMAIN].pop(entry.entry_id)"
UnloadRegistry(reg, e, unload_ok) ==
    IF unload_ok THEN [reg EXCEPT ![e] = NoCoord] ELSE reg

\* async_unload_entry for entry e; unload_ok is what the platforms answer
UnloadEntry(e, unload_ok) ==
    /\ entries[e].state = "loaded"
    /\ registry' = UnloadRegistry(registry, e, unload_ok)
    /\ apis' = IF registry'[e].has THEN apis
               ELSE [apis EXCEPT ![registry[e].api] = PyNone]
    /\ entries' = [entries EXCEPT
                     ![e].state = IF unload_ok THEN "not_loaded"
                                  ELSE "failed_unload"]
    /\ last' = [NoStep EXCEPT !.kind = "unload", !.actor = e,
                              !.error = IF unload_ok THEN "" ELSE "failed"]

\* a refresh cycle of the coordinator stored for entry e
EntryCycle(e, sc, us) ==
    /\ registry[e].has
    /\ entries[e].state = "loaded"
    /\ \E c \in {registry[e]} :
       \E cy \in {CycleOn(c, apis[c.api], sc, us)} :
           /\ registry' = [registry EXCEPT ![e] = cy.coord]
           /\ apis' = [apis EXCEPT ![c.api] = cy.token]
           /\ entries' = [entries EXCEPT
                            ![e].reauth = @ \/ cy.r.cls = "ConfigEntryAuthFailed"]
           /\ last' = [NoStep EXCEPT !.kind = "cycle", !.actor = e,
                                     !.cause = sc.cause, !.cls = cy.r.cls,
                                     !.msg = cy.r.msg, !.calls = cy.calls]

\* two accounts configured with the default interval, not yet set up
Configured(c) ==
    [NoEntry EXCEPT !.state = "not_loaded", !.cred = c,
                    !.interval = SomeInt(DEFAULT_SCAN_INTERVAL)]

InitEntries ==
    /\ token = PyNone
    /\ pc = "idle"
    /\ outcome = NoOutcome
    /\ prevKind = "none"
    /\ tokenAtStart = PyNone
    /\ reqs = <<>>
    /\ lastLogin = NoLogin
    /\ firstDev = NoFirst
    /\ lastDev = NoDev
    /\ CoordInit
    /\ SensInit
    /\ entries = [e \in EntryIds |-> Configured(IF e = 1 THEN "first" ELSE "second")]
    /\ registry = [e \in EntryIds |-> NoCoord]
    /\ apis = [a \in ApiIds |-> PyNone]
    /\ last = NoStep

clientVars ==
    <<token, pc, outcome, prevKind, tokenAtStart, reqs, lastLogin, firstDev,
      lastDev>>

\* the time a cycle of a stored coordinator takes
EntryElapsedUs == {1234}

NextEntries ==
    \/ \E e \in EntryIds, sc \in EntryScripts, us \in EntryElapsedUs, w \in BOOLEAN :
           SetupEntry(e, sc, us, w) /\ UNCHANGED <<clientVars, coordVars, sensVars>>
    \/ \E e \in EntryIds, ok \in BOOLEAN :
           UnloadEntry(e, ok) /\ UNCHANGED <<clientVars, coordVars, sensVars>>
    \/ \E e \in EntryIds, sc \in EntryScripts, us \in EntryElapsedUs :
           EntryCycle(e, sc, us) /\ UNCHANGED <<clientVars, coordVars, sensVars>>

SpecEntries == InitEntries /\ [][NextEntries]_vars

----------------------------------------------------------------------------
(* config_flow.py: the user flow, the re-authentication flow and the        *)
(* options flow                                                             *)

MIN_SCAN_INTERVAL == 10
MAX_SCAN_INTERVAL == 3600

\* vol.Coerce(int) of a number given in tenths: int() drops the fraction
CoerceInt(tenths) == tenths \div 10

\* the range check starting at 5
SchemaAcceptsFromFive(tenths) ==
    CoerceInt(tenths) >= 5 /\ CoerceInt(tenths) <= MAX_SCAN_INTERVAL

\* vol.All(vol.Coerce(int), vol.Range(min=10, max=3600))
SchemaAccepts(tenths) ==
    CoerceInt(tenths) >= MIN_SCAN_INTERVAL /\ CoerceInt(tenths) <= MAX_SCAN_INTERVAL

\* what validate_input raised (NoExc when it returned) and the get_devices
\* calls it made
Validated(x, n) == [exc |-> x, calls |-> n]

\* "except UpdateFailed as ex" of validate_input
ValidateExcept(x) ==
    IF x.cls # "UpdateFailed" THEN x
    ELSE IF Contains(x.msg, <<"Invalid email or password">>)
         THEN Exc("InvalidAuth", x.msg)
         ELSE Exc("CannotConnect", x.msg)

\* validate_input calling get_devices a second time after a failure
ValidateInputRetries(sc, again, fault) ==
    LET call == Calls[PyNone, sc]
        second == Calls[call.token, again]
    IN  IF fault THEN Validated(Exc("RuntimeError", <<"no session">>), 0)
        ELSE IF call.outcome.kind = "ok" THEN Validated(NoExc, 1)
        ELSE IF second.outcome.kind = "ok" THEN Validated(NoExc, 2)
        ELSE Validated(ValidateExcept(Exc(second.outcome.cls, second.outcome.msg)), 2)

\* validate_input: a client of its own, one get_devices call answered by sc
\* (again is what the server would answer to a further call); fault is
\* async_get_clientsession failing
ValidateInput(sc, again, fault) ==
    LET call == Calls[PyNone, sc]
    IN  IF fault THEN Validated(Exc("RuntimeError", <<"no session">>), 0)
        ELSE IF call.outcome.kind = "ok" THEN Validated(NoExc, 1)
        ELSE Validated(ValidateExcept(Exc(call.outcome.cls, call.outcome.msg)), 1)

\* errors["base"] of async_step_user and async_step_reauth_confirm
FlowError(x) ==
    CASE x.cls = "" -> ""
      [] x.cls = "InvalidAuth" -> "invalid_auth"
      [] x.cls = "CannotConnect" -> "cannot_connect"
      [] OTHER -> "unknown"

\* a step that stores the new configuration whatever the validation said
PersistAlways(err, old, new) == new

\* the "else" of the try: the new configuration is stored only when no
\* error was set, otherwise the form is shown again
Persist(err, old, new) == IF err = "" THEN new ELSE old

\* the host reloading entry e with configuration new: a loaded entry is
\* unloaded, and the entry is set up again by the next SetupEntry
Reload(e, new) ==
    /\ entries' = [entries EXCEPT ![e] = [new EXCEPT !.state = "not_loaded"]]
    /\ registry' = [registry EXCEPT ![e] = NoCoord]
    /\ apis' = IF registry[e].has
               THEN [apis EXCEPT ![registry[e].api] = PyNone] ELSE apis

\* async_step_user with user_input for a new entry e; the host checks the
\* input against DATA_SCHEMA before the step sees it
UserFlow(e, cred, tenths, sc, again, fault) ==
    /\ entries[e].state = "absent"
    /\ UNCHANGED <<registry, apis>>
    /\ IF ~SchemaAccepts(tenths)
       THEN /\ UNCHANGED entries
            /\ last' = [NoStep EXCEPT !.kind = "user", !.actor = e,
                                      !.error = "schema", !.input = tenths]
       ELSE \E v \in {ValidateInput(sc, again, fault)} :
            \E err \in {FlowError(v.exc)} :
            \E new \in {[Configured(cred) EXCEPT
                            !.interval = SomeInt(CoerceInt(tenths))]} :
                /\ entries' = [entries EXCEPT ![e] = Persist(err, @, new)]
                /\ last' = [NoStep EXCEPT !.kind = "user", !.actor = e,
                                          !.cause = sc.cause, !.cls = v.exc.cls,
                                          !.msg = v.exc.msg, !.error = err,
                                          !.calls = v.calls, !.input = tenths]

\* async_step_reauth_confirm with user_input for the entry e whose
\* re-authentication the host has started
ReauthFlow(e, cred, sc, again, fault) ==
    /\ entries[e].reauth
    /\ \E v \in {ValidateInput(sc, again, fault)} :
       \E err \in {FlowError(v.exc)} :
       \E new \in {[entries[e] EXCEPT !.cred = cred, !.reauth = FALSE]} :
           /\ IF Persist(err, entries[e], new) = entries[e]
              THEN UNCHANGED <<entries, registry, apis>>
              ELSE Reload(e, Persist(err, entries[e], new))
           /\ last' = [NoStep EXCEPT !.kind = "reauth", !.actor = e,
                                     !.cause = sc.cause, !.cls = v.exc.cls,
                                     !.msg = v.exc.msg, !.error = err,
                                     !.calls = v.calls]

\* MarstekOptionsFlow.async_step_init with user_input: the form is offered
\* only for an entry with devices, the host checks the input against the
\* form's schema and OptionsFlowWithReload reloads the entry
OptionsFlow(e, tenths) ==
    /\ entries[e].state = "loaded"
    /\ entries[e].devices
    /\ IF ~SchemaAccepts(tenths)
       THEN UNCHANGED <<entries, registry, apis>>
       ELSE Reload(e, [entries[e] EXCEPT
                          !.options = SomeInt(CoerceInt(tenths))])
    /\ last' = [NoStep EXCEPT !.kind = "options", !.actor = e,
                              !.error = IF SchemaAccepts(tenths) THEN ""
                                        ELSE "schema",
                              !.input = tenths]

\* entry 1 is still to be configured, entry 2 was written before
\* scan_interval was part of the entry data
InitFlow ==
    /\ token = PyNone
    /\ pc = "idle"
    /\ outcome = NoOutcome
    /\ prevKind = "none"
    /\ tokenAtStart = PyNone
    /\ reqs = <<>>
    /\ lastLogin = NoLogin
    /\ firstDev = NoFirst
    /\ lastDev = NoDev
    /\ CoordInit
    /\ SensInit
    /\ entries = [e \in EntryIds |->
                    IF e = 1 THEN NoEntry
                    ELSE [Configured("second") EXCEPT !.interval = NoInt]]
    /\ registry = [e \in EntryIds |-> NoCoord]
    /\ apis = [a \in ApiIds |-> PyNone]
    /\ last = NoStep

\* the intervals given to the user form, in tenths of a second: 5, 10, 60,
\* 3600, 3600.9 and 3601
UserIntervals == {50, 100, 600, 36000, 36009, 36010}

\* what the server answers during a validation or a setup
FlowScripts == {sc \in EntryScripts : sc.cause \notin {"unavailable", "denied"}}

\* the options form is given 120 and 3601 seconds; again is what the server
\* would answer to a further call of a validation, a good list
NextFlow ==
    \/ \E e \in EntryIds, t \in UserIntervals, sc \in FlowScripts,
          again \in {a \in FlowScripts : a.cause = "ok"}, f \in BOOLEAN :
           UserFlow(e, "first", t, sc, again, f)
             /\ UNCHANGED <<clientVars, coordVars, sensVars>>
    \/ \E e \in EntryIds, sc \in FlowScripts, again \in {a \in FlowScripts : a.cause = "ok"},
          f \in BOOLEAN :
           ReauthFlow(e, "renewed", sc, again, f)
             /\ UNCHANGED <<clientVars, coordVars, sensVars>>
    \/ \E e \in EntryIds, t \in {1200, 36010} :
           OptionsFlow(e, t) /\ UNCHANGED <<clientVars, coordVars, sensVars>>
    \/ \E e \in EntryIds, sc \in FlowScripts, us \in EntryElapsedUs,
          w \in BOOLEAN :
           SetupEntry(e, sc, us, w) /\ UNCHANGED <<clientVars, coordVars, sensVars>>
    \/ \E e \in EntryIds, ok \in BOOLEAN :
           UnloadEntry(e, ok) /\ UNCHANGED <<clientVars, coordVars, sensVars>>

SpecFlow == InitFlow /\ [][NextFlow]_vars

----------------------------------------------------------------------------
(* sensor.py: the entities set up for an entry and the values they show.    *)
(* Powers are in hundredths of a watt, the values shown in tenths.          *)

SENSOR_TYPES ==
    <<"soc", "charge", "discharge", "load", "pv", "grid", "profit", "version",
      "sn", "report_time">>
DIAGNOSTIC_SENSORS == <<"last_update", "api_latency", "connection_status">>

\* a device record without the "devid" key
NoKey == [t |-> "nokey", i |-> 0, s |-> ""]

\* a device record as the sensors see it: named says whether it has a
\* "name" key; pv and discharge are NoInt where the key is missing
SensorDevice(id, named, pv, discharge) ==
    [devid |-> id, name |-> named, pv |-> pv, discharge |-> discharge]

\* device.get("devid", "unknown")
DevIdOf(device) ==
    IF device.devid = NoKey THEN PyStr("unknown") ELSE device.devid

\* 'if not devid or devid == "unknown": continue'
SkipDevice(device) ==
    ~Truthy(DevIdOf(device)) \/ DevIdOf(device) = PyStr("unknown")

Entity(cls, devid, key) == [cls |-> cls, devid |-> devid, key |-> key]

\* the sixteen sensors appended for one device, in the order of the code
DeviceEntities(devid) ==
    [i \in 1..Len(SENSOR_TYPES) |->
        Entity("MarstekSensor", devid, SENSOR_TYPES[i])]
    \o [i \in 1..Len(DIAGNOSTIC_SENSORS) |->
        Entity("MarstekDiagnosticSensor", devid, DIAGNOSTIC_SENSORS[i])]
    \o <<Entity("MarstekDeviceTotalChargeSensor", devid, "total_charge"),
         Entity("MarstekCalculatedChargePowerSensor", devid,
                "calculated_charge_power"),
         Entity("MarstekCalculatedDischargePowerSensor", devid,
                "calculated_discharge_power")>>

\* the two sensors of the account
TotalEntities ==
    <<Entity("MarstekTotalChargeSensor", PyNone, "total_charge_all_devices"),
      Entity("MarstekTotalPowerSensor", PyNone, "total_power_all_devices")>>

\* the loop over coordinator.data: MarstekBaseSensor.__init__ reads
\* device['name'] and raises KeyError for a record without that key
RECURSIVE CreateEntities(_)
CreateEntities(devices) ==
    IF devices = <<>> THEN [raised |-> FALSE, list |-> <<>>]
    ELSE IF SkipDevice(Head(devices)) THEN CreateEntities(Tail(devices))
    ELSE IF ~Head(devices).name THEN [raised |-> TRUE, list |-> <<>>]
    ELSE LET rest == CreateEntities(Tail(devices))
         IN  IF rest.raised THEN rest
             ELSE [raised |-> FALSE,
                   list |-> DeviceEntities(DevIdOf(Head(devices))) \o rest.list]

\* async_setup_entry of the sensor platform, on the published data d: what
\* async_add_entities receives ("added"), or nothing when the function
\* returns early ("skipped") or raises ("raised")
SensorSetupEntry(d) ==
    IF ~d.has \/ d.devices = <<>> THEN [state |-> "skipped", list |-> <<>>]
    ELSE IF CreateEntities(d.devices).raised
         THEN [state |-> "raised", list |-> <<>>]
    ELSE [state |-> "added",
          list |-> CreateEntities(d.devices).list \o TotalEntities]

\* _get_device_data: the first published record with the sensor's devid
RECURSIVE GetDeviceData(_, _)
GetDeviceData(devices, devid) ==
    IF devices = <<>> THEN [has |-> FALSE, dev |-> SensorDevice(NoKey, FALSE, NoInt, NoInt)]
    ELSE IF Head(devices).devid = devid THEN [has |-> TRUE, dev |-> Head(devices)]
    ELSE GetDeviceData(Tail(devices), devid)

\* dev.get(key, 0), of pv and discharge
GetOrZero(f) == IF f.has THEN f.val ELSE 0

\* round(x, 1) cutting the second decimal off
Round1Truncates(h) == IF h >= 0 THEN h \div 10 ELSE -((-h) \div 10)

\* round(x, 1) of x = h hundredths, in tenths: the nearest tenth; the powers
\* of SensorDevices have no difference on a tie between two tenths
Round1(h) == (h + 5) \div 10

Float(tenths) == [t |-> "float", i |-> tenths, s |-> ""]

\* MarstekCalculatedChargePowerSensor.native_value
CalculatedChargePower(devices, devid) ==
    LET g == GetDeviceData(devices, devid)
        r == Round1(GetOrZero(g.dev.pv) - GetOrZero(g.dev.discharge))
    IN  IF ~g.has THEN Float(0) ELSE Float(IF r > 0 THEN r ELSE 0)

\* MarstekCalculatedDischargePowerSensor.native_value
CalculatedDischargePower(devices, devid) ==
    LET g == GetDeviceData(devices, devid)
        r == Round1(GetOrZero(g.dev.discharge) - GetOrZero(g.dev.pv))
    IN  IF ~g.has THEN Float(0) ELSE Float(IF r > 0 THEN r ELSE 0)

\* dt_util.now()
Now == [t |-> "datetime", i |-> 0, s |-> ""]

\* the connection status read from the list instead of the flag
DiagnosticValueFromData(key, success, latency, d) ==
    IF key = "last_update" THEN (IF success THEN Now ELSE PyNone)
    ELSE IF key = "api_latency"
         THEN (IF latency.has THEN Float(latency.tenths) ELSE PyNone)
    ELSE IF key = "connection_status"
         THEN (IF d.has THEN PyStr("online") ELSE PyStr("offline"))
    ELSE PyNone

\* MarstekDiagnosticSensor.native_value, of the coordinator's flag, latency
\* and published data d
DiagnosticValue(key, success, latency, d) ==
    IF key = "last_update" THEN (IF success THEN Now ELSE PyNone)
    ELSE IF key = "api_latency"
         THEN (IF latency.has THEN Float(latency.tenths) ELSE PyNone)
    ELSE IF key = "connection_status"
         THEN (IF success THEN PyStr("online") ELSE PyStr("offline"))
    ELSE PyNone

\* the sensors whose native_value is followed
ReadClasses ==
    {"MarstekDiagnosticSensor", "MarstekCalculatedChargePowerSensor",
     "MarstekCalculatedDischargePowerSensor"}

NativeValue(e, d, success, latency) ==
    IF e.cls = "MarstekDiagnosticSensor"
    THEN DiagnosticValue(e.key, success, latency, d)
    ELSE IF e.cls = "MarstekCalculatedChargePowerSensor"
         THEN CalculatedChargePower(d.devices, e.devid)
    ELSE CalculatedDischargePower(d.devices, e.devid)

\* a refresh of the coordinator ends: o is what get_devices returned or raised
SensorRefresh(o, us) ==
    /\ \E r \in {AsyncUpdateData(o, us, last_latency)} :
          /\ HostRefresh(r)
          /\ last_latency' = r.latency
    /\ UNCHANGED <<cpc, result, elapsed, succeeded, pending, inflight>>
    /\ UNCHANGED sensVars

\* the host sets the sensor platform up, once the first refresh has published
SensorSetup ==
    /\ entities.state = "none"
    /\ data.has
    /\ entities' = SensorSetupEntry(data)
    /\ UNCHANGED <<shown, coordVars>>

\* the host reads the state of the i-th entity it was given
SensorRead(i) ==
    /\ i \in 1..Len(entities.list)
    /\ entities.list[i].cls \in ReadClasses
    /\ shown' = [has |-> TRUE, entity |-> entities.list[i],
                 value |-> NativeValue(entities.list[i], data,
                                       last_update_success, last_latency)]
    /\ UNCHANGED <<entities, coordVars>>

\* the records the server sends: three that get sensors, one without a
\* name, and the four ways of having no usable devid
SensorD1 == SensorDevice(PyStr("d1"), TRUE, SomeInt(1004), SomeInt(1000))
SensorD1Later == SensorDevice(PyStr("d1"), TRUE, SomeInt(300), SomeInt(1000))
SensorD2 == SensorDevice(PyStr("d2"), TRUE, NoInt, SomeInt(1237))
Unnamed == SensorDevice(PyStr("d2"), FALSE, SomeInt(300), NoInt)
Unusable ==
    <<SensorDevice(NoKey, TRUE, NoInt, NoInt),
      SensorDevice(PyStr(""), TRUE, NoInt, NoInt),
      SensorDevice(PyStr("unknown"), TRUE, SomeInt(300), NoInt),
      SensorDevice(PyNone, TRUE, NoInt, NoInt)>>

\* the lists get_devices returns under SpecSensor
SensorLists ==
    {<<>>, <<SensorD1>>, <<SensorD1Later>>, <<SensorD2>>,
     <<SensorD1, SensorD2>>, <<SensorD2, SensorD1Later>>,
     Unusable, <<Unusable[1]>>, <<Unusable[4]>>,
     <<Unusable[2], SensorD1>>, <<SensorD1, Unusable[3], SensorD2>>,
     <<Unnamed>>, <<SensorD1, Unnamed>>, <<Unusable[3], Unnamed, SensorD1>>}

SensorOutcomes ==
    {Returned(ds) : ds \in SensorLists} \cup {Raised(MsgTimeout)}

NextSensor ==
    \/ \E o \in SensorOutcomes, us \in EntryElapsedUs :
          SensorRefresh(o, us) /\ UNCHANGED <<clientVars, intVars>>
    \/ SensorSetup /\ UNCHANGED <<clientVars, intVars>>
    \/ \E i \in 1..Len(entities.list) :
          SensorRead(i) /\ UNCHANGED <<clientVars, intVars>>

SpecSensor == Init /\ [][NextSensor]_vars

----------------------------------------------------------------------------
(* Reading the history of a call *)

Done == pc = "idle" /\ outcome.kind # "none"
NumLogin == Cardinality({i \in 1..Len(reqs) : reqs[i].kind = "login"})
NumDevices == Cardinality({i \in 1..Len(reqs) : reqs[i].kind = "devices"})
Kept(d) == d.type # PyStr("HME-3")

----------------------------------------------------------------------------
(* C6: whenever get_devices returns a list, it is the server's data list    *)
(* without the devices of type "HME-3": every other device (one without a   *)
(* type too) is there exactly once, in the server's order.                  *)
FilterKeepsAllButIgnored ==
    (Done /\ outcome.kind = "ok") =>
        /\ lastDev.examined
        /\ outcome.devices = SelectSeq(lastDev.resp.body.data.items, Kept)

\* a returned list with a kept device on either side of a dropped HME-3
FilterMixedListReturned ==
    /\ Done /\ outcome.kind = "ok"
    /\ \E i, j, k \in 1..Len(lastDev.resp.body.data.items) :
         LET items == lastDev.resp.body.data.items
         IN  /\ i < j /\ j < k
             /\ items[i].type = PyNone
             /\ items[j].type = PyStr("HME-3")
             /\ items[k].type = PyStr("HME-5")
    /\ Len(outcome.devices) = Len(lastDev.resp.body.data.items) - 1

----------------------------------------------------------------------------
(* More reading of the history *)

SentinelCodes ==
    {PyInt(-1), PyStr("-1"), PyInt(401), PyStr("401"), PyInt(403), PyStr("403")}
Code8 == {PyInt(8), PyStr("8")}

\* the first device-list response parsed to a mapping with a sentinel code
FirstInvalid == firstDev.has /\ firstDev.code \in SentinelCodes

\* the last login request was answered with a token
LoginSucceeded ==
    /\ lastLogin.has /\ lastLogin.fault = "none"
    /\ lastLogin.resp.status = 200
    /\ lastLogin.resp.body.kind = "dict"
    /\ lastLogin.resp.body.token \in Tokens

\* the mapping get_devices finally examined carries code 8
Code8Examined == lastDev.examined /\ lastDev.resp.body.code \in Code8

\* the token of the last login of this call that succeeded, else the token
\* the call started with
SucceededLogins == {i \in 1..(Len(reqs) - 1) : reqs[i].kind = "login"}
LastGoodToken ==
    IF SucceededLogins = {} THEN tokenAtStart
    ELSE LET i == CHOOSE k \in SucceededLogins : \A m \in SucceededLogins : m <= k
         IN  reqs[i + 1].tok

----------------------------------------------------------------------------
(* C1, as claimed: a call that started with a token and whose first         *)
(* device-list response carries a sentinel code makes exactly one login     *)
(* request and exactly one retried device-list request, and a successful    *)
(* retry returns the retried data under the refreshed token.                *)
RefreshAlwaysRetries ==
    (Done /\ Truthy(tokenAtStart) /\ FirstInvalid) =>
        /\ NumLogin = 1
        /\ NumDevices = 2
        /\ (outcome.kind = "ok" =>
              /\ outcome.devices = SelectSeq(lastDev.resp.body.data.items, Kept)
              /\ token = lastLogin.resp.body.token)

(* C1, amended: such a call makes exactly one login request; it makes       *)
(* exactly one retried device-list request when that login succeeds and     *)
(* none when it fails; a successful retry returns the retried (filtered)    *)
(* data, and the stored token is then the refreshed one, which the retried  *)
(* request carried.                                                         *)
RefreshOnceRetryOnce ==
    (Done /\ Truthy(tokenAtStart) /\ FirstInvalid) =>
        /\ NumLogin = 1
        /\ reqs[1] = DevReq(tokenAtStart)
        /\ reqs[2] = LoginReq
        /\ NumDevices = (IF LoginSucceeded THEN 2 ELSE 1)
        /\ (outcome.kind = "ok" =>
              /\ LoginSucceeded
              /\ lastDev.examined
              /\ outcome.devices = SelectSeq(lastDev.resp.body.data.items, Kept)
              /\ token = lastLogin.resp.body.token
              /\ reqs[3] = DevReq(token))

\* a string sentinel, a refresh to another token, a retry that returns devices
RefreshedAndReturned ==
    /\ Done /\ Truthy(tokenAtStart)
    /\ firstDev.has /\ firstDev.code = PyStr("403")
    /\ outcome.kind = "ok" /\ outcome.devices # <<>>
    /\ token # tokenAtStart
    /\ NumLogin = 1 /\ NumDevices = 2

----------------------------------------------------------------------------
(* C2: when the mapping that get_devices finally examines (first response,  *)
(* or retried response after a refresh) has code 8 or "8", the stored token *)
(* is absent after the call and the call fails with "access denied".        *)
Code8ClearsToken ==
    (Done /\ Code8Examined) =>
        /\ token = PyNone
        /\ outcome.kind = "fail"
        /\ Contains(outcome.msg, <<"access denied">>)

\* code 8 (the number) on the retried response, after a refresh stored a token
Code8OnRetry ==
    /\ Done /\ Code8Examined
    /\ lastDev.resp.body.code = PyInt(8)
    /\ NumDevices = 2 /\ LoginSucceeded
    /\ Truthy(tokenAtStart)

----------------------------------------------------------------------------
(* C3: after a failed get_devices call the stored token is absent when the  *)
(* failure is the code-8 failure; after every other failure it is the last  *)
(* token a login of this call obtained, or the token the call started with  *)
(* when no login succeeded; so a present token is never made absent by a    *)
(* failure other than code 8.                                               *)
FailureKeepsLastGoodToken ==
    (Done /\ outcome.kind = "fail") =>
        IF Code8Examined
        THEN token = PyNone
        ELSE /\ token = LastGoodToken
             /\ (tokenAtStart # PyNone => token # PyNone)

\* a retry that failed after a refresh replaced the token the call started with
RetryFailedAfterRefresh ==
    /\ Done /\ outcome.kind = "fail" /\ ~Code8Examined
    /\ Truthy(tokenAtStart)
    /\ NumLogin = 1 /\ NumDevices = 2
    /\ lastDev.fault = "timeout"
    /\ token # tokenAtStart /\ token \in Tokens

----------------------------------------------------------------------------
(* C4: in a call that follows a successful call, as long as the first       *)
(* device-list response carries no sentinel code, no login request is       *)
(* issued: the first request is the device-list request with the held token.*)
HeldTokenReused ==
    (prevKind = "ok" /\ reqs # <<>> /\ ~FirstInvalid) =>
        /\ NumLogin = 0
        /\ reqs = <<DevReq(tokenAtStart)>>
        /\ tokenAtStart \in Tokens

\* a second successful call in a row
SecondCallSucceeded ==
    /\ Done /\ prevKind = "ok" /\ outcome.kind = "ok"
    /\ NumLogin = 0 /\ NumDevices = 1
    /\ token = tokenAtStart

----------------------------------------------------------------------------
(* C5: a call that starts without a token issues the login first and a      *)
(* device-list request only after that login stored a token; if the login   *)
(* fails the call fails with the login's failure, issues no device-list     *)
(* request, and the token is still absent.                                  *)
LoginBeforeDevices ==
    (~Truthy(tokenAtStart) /\ reqs # <<>>) =>
        /\ reqs[1] = LoginReq
        /\ \A i \in 1..Len(reqs) :
              reqs[i].kind = "devices" =>
                  i > 1 /\ reqs[i - 1].kind = "login" /\ reqs[i].tok \in Tokens
        /\ (pc = "fetch" => LoginSucceeded /\ token = lastLogin.resp.body.token
                            /\ reqs[2].tok = token)
        /\ (lastLogin.has /\ NumLogin = 1 /\ ~LoginSucceeded) =>
              /\ Done /\ outcome.kind = "fail"
              /\ NumDevices = 0
              /\ token = tokenAtStart
              /\ (lastLogin.fault = "timeout" =>
                    Contains(outcome.msg, <<"timeout">>))
              /\ (lastLogin.fault = "none" =>
                    outcome.msg = GetToken(lastLogin.resp).msg)

\* the first login of a client timed out
FirstLoginTimedOut ==
    /\ Done /\ tokenAtStart = PyNone
    /\ reqs = <<LoginReq>>
    /\ lastLogin.fault = "timeout"
    /\ token = PyNone
    /\ outcome.kind = "fail"

----------------------------------------------------------------------------
(* Reading the answer to a login *)

\* the call ended with the failure of its last login request
LoginJustFailed ==
    /\ Done /\ outcome.kind = "fail"
    /\ reqs # <<>> /\ reqs[Len(reqs)] = LoginReq

\* the stored token when the last login request was issued
TokenBeforeLogin ==
    IF Len(reqs) <= 1 THEN tokenAtStart ELSE reqs[Len(reqs) - 1].tok

Lenient(status) == status # 200 /\ status < 500

----------------------------------------------------------------------------
(* C7: the login response is classified by the first matching rule: 401,    *)
(* then >= 500, then any other non-200 status, then an unparseable body,    *)
(* then a non-mapping body, then a mapping without a truthy token; only     *)
(* when none matches is the token stored.  A non-200 response never stores  *)
(* a token, whatever its body.                                              *)
LoginClassifiedInOrder ==
    (lastLogin.has /\ lastLogin.fault = "none") =>
        LET st == lastLogin.resp.status
            b == lastLogin.resp.body
            stores == st = 200 /\ b.kind = "dict" /\ b.token \in Tokens
        IN  /\ stores => /\ ~LoginJustFailed
                         /\ pc \in {"fetch", "retry"} =>
                               /\ token = b.token
                               /\ reqs[Len(reqs)] = DevReq(b.token)
            /\ ~stores => /\ LoginJustFailed
                          /\ token = TokenBeforeLogin
            /\ st = 401 => outcome.msg = <<"Invalid email or password">>
            /\ st >= 500 =>
                  Contains(outcome.msg, <<"API ", "temporarily unavailable">>)
            /\ (st # 401 /\ st < 500 /\ st # 200) =>
                  Contains(outcome.msg, <<"API request failed">>)
            /\ (st = 200 /\ b.kind = "invalid_json") =>
                  Contains(outcome.msg, <<"invalid response format">>)
            /\ (st = 200 /\ b.kind \in {"list", "str"}) =>
                  /\ Contains(outcome.msg, <<"Unexpected API response type">>)
                  /\ outcome.msg[Len(outcome.msg)] = b.kind
            /\ (st = 200 /\ b.kind = "dict" /\ b.token \notin Tokens) =>
                  /\ Contains(outcome.msg, <<"Login failed", ": ">>)
                  /\ (b.msg = Text(<<"bad login">>) =>
                        outcome.msg = <<"Login failed", ": ", "bad login">>)
                  /\ (b.msg = NoText /\ b.message = NoText =>
                        outcome.msg = <<"Login failed", ": ", "Unknown error">>)

\* a 404 login answer whose body carries a token: nothing was stored
Non200LoginWithTokenBody ==
    /\ LoginJustFailed /\ lastLogin.fault = "none"
    /\ lastLogin.resp.status = 404
    /\ lastLogin.resp.body.kind = "dict"
    /\ lastLogin.resp.body.token \in Tokens
    /\ token = PyNone
    /\ Contains(outcome.msg, <<"API request failed">>)

----------------------------------------------------------------------------
(* C8: a status >= 500 from the login endpoint or from the device-list      *)
(* endpoint (first or retried request) ends the call with a failure whose   *)
(* message contains "temporarily unavailable" and the status; the body is   *)
(* not parsed.                                                              *)
ServerErrorIsUnavailable ==
    /\ (lastLogin.has /\ lastLogin.fault = "none" /\ lastLogin.resp.status >= 500) =>
          /\ LoginJustFailed
          /\ Contains(outcome.msg, <<"temporarily unavailable">>)
          /\ Contains(outcome.msg, <<"HTTP ", ToString(lastLogin.resp.status)>>)
          /\ ~lastLogin.parsed
    /\ (lastDev.has /\ lastDev.fault = "none" /\ lastDev.resp.status >= 500) =>
          /\ Done /\ outcome.kind = "fail"
          /\ reqs[Len(reqs)].kind = "devices"
          /\ Contains(outcome.msg, <<"temporarily unavailable">>)
          /\ Contains(outcome.msg, <<"HTTP ", ToString(lastDev.resp.status)>>)
          /\ ~lastDev.parsed /\ ~lastDev.examined

\* a 503 on the retried request, with a body that would have been a good answer
ServerErrorOnRetry ==
    /\ Done /\ NumDevices = 2
    /\ lastDev.has /\ lastDev.fault = "none"
    /\ lastDev.resp.status = 503
    /\ lastDev.resp.body.kind = "dict" /\ lastDev.resp.body.data.isList
    /\ outcome.kind = "fail"

----------------------------------------------------------------------------
(* C9: a device-list response with a status other than 200 and below 500    *)
(* is handled as the same body with status 200 would be: it is parsed, a    *)
(* sentinel code on the first response starts the refresh, and a mapping    *)
(* that is finally examined with a data list and no code 8 is returned as   *)
(* the device list.                                                         *)
LenientStatusParsed ==
    /\ (lastDev.has /\ lastDev.fault = "none" /\ Lenient(lastDev.resp.status)) =>
          LET b == lastDev.resp.body
              as200 == [lastDev.resp EXCEPT !.status = 200]
          IN  /\ Done /\ lastDev.parsed
              /\ FetchDevicesWithToken(lastDev.resp) = FetchDevicesWithToken(as200)
              /\ (b.kind = "dict" /\ b.code # PyList) => lastDev.examined
              /\ (b.kind = "dict" /\ b.code \notin Code8 /\ b.code # PyList
                    /\ b.data.isList) =>
                    outcome = Returned(SelectSeq(b.data.items, Kept))
              /\ (b.kind = "dict" /\ b.code \in Code8) =>
                    Contains(outcome.msg, <<"access denied">>)
              /\ b.kind = "invalid_json" =>
                    Contains(outcome.msg, <<"invalid response format">>)
    /\ (firstDev.has /\ Lenient(firstDev.status) /\ firstDev.code \in SentinelCodes) =>
          /\ NumLogin >= 1
          /\ reqs[(IF Truthy(tokenAtStart) THEN 1 ELSE 2) + 1] = LoginReq

\* a 429 answer with a device list, returned
LenientStatusReturned ==
    /\ Done /\ lastDev.has /\ lastDev.fault = "none"
    /\ lastDev.resp.status = 429
    /\ outcome.kind = "ok" /\ outcome.devices # <<>>

----------------------------------------------------------------------------
(* C10, as claimed: a network fault or a non-200 status on the retried      *)
(* device-list request ends the call with a failure whose message names the *)
(* retry, and no further request is issued.                                 *)
RetryFailureNamesRetry ==
    (Done /\ NumDevices = 2 /\ lastDev.has
       /\ (lastDev.fault = "client_error"
           \/ (lastDev.fault = "none" /\ lastDev.resp.status # 200))) =>
        /\ outcome.kind = "fail"
        /\ Contains(outcome.msg, <<"retry">>)
        /\ reqs[Len(reqs)].kind = "devices"

(* C10, amended: the answer to the retried device-list request always ends  *)
(* the call, and no request follows it.  A network fault on it fails the    *)
(* call with "Network error on retry"; a status >= 500 fails it with "API   *)
(* temporarily unavailable (HTTP <status>)", which does not name the retry; *)
(* a non-200 status below 500 is no failure by itself: the body decides, as *)
(* for status 200.                                                          *)
RetryAnswerIsTerminal ==
    /\ NumDevices <= 2
    /\ (NumDevices = 2 /\ pc # "retry") =>
          /\ Done /\ lastDev.has
          /\ reqs[Len(reqs)].kind = "devices"
          /\ reqs[Len(reqs) - 1] = LoginReq
          /\ lastDev.fault = "client_error" =>
                /\ outcome.kind = "fail"
                /\ Contains(outcome.msg, <<"Network error", " on ", "retry">>)
          /\ (lastDev.fault = "none" /\ lastDev.resp.status >= 500) =>
                /\ outcome.kind = "fail"
                /\ Contains(outcome.msg, <<"temporarily unavailable">>)
                /\ ~Contains(outcome.msg, <<"retry">>)
          /\ (lastDev.fault = "none" /\ Lenient(lastDev.resp.status)
                /\ lastDev.resp.body.kind = "dict"
                /\ lastDev.resp.body.code \notin Code8
                /\ lastDev.resp.body.data.isList) =>
                outcome.kind = "ok"

\* the retried request failed in the network
RetryNetworkFault ==
    /\ Done /\ NumDevices = 2 /\ NumLogin = 1
    /\ lastDev.fault = "client_error"
    /\ outcome.kind = "fail"
    /\ Contains(outcome.msg, <<"retry">>)

----------------------------------------------------------------------------
(* C11: a device-list response carrying code 8 is never followed by a       *)
(* login request or by another device-list request of the same call: the    *)
(* call ends with that response.                                            *)
Code8NeverRetried ==
    /\ (firstDev.has /\ firstDev.code \in Code8) =>
          /\ Done /\ lastDev.examined
          /\ NumDevices = 1
          /\ reqs[Len(reqs)].kind = "devices"
          /\ NumLogin = (IF Truthy(tokenAtStart) THEN 0 ELSE 1)
    /\ Code8Examined =>
          /\ Done
          /\ reqs[Len(reqs)].kind = "devices"

\* code "8" on the first response of a call on a held token
Code8OnFirstResponse ==
    /\ Done /\ Truthy(tokenAtStart)
    /\ firstDev.has /\ firstDev.code = PyStr("8")
    /\ reqs = <<DevReq(tokenAtStart)>>
    /\ outcome.kind = "fail"

----------------------------------------------------------------------------
(* C12: get_devices returns a list only when the mapping it finally         *)
(* examines has a code other than 8 and a data field that is a list; a      *)
(* mapping without data fails with "Invalid API response: <server msg>", a  *)
(* data field that is no list fails with "Invalid API response structure",  *)
(* and a failing call returns no data.                                      *)
ReturnsOnlyWellFormedData ==
    Done =>
        LET b == lastDev.resp.body
        IN  /\ outcome.kind = "ok" =>
                  /\ lastDev.examined /\ b.kind = "dict"
                  /\ b.code \notin Code8
                  /\ b.data.present /\ b.data.isList
            /\ (lastDev.examined /\ b.code \notin Code8 /\ ~b.data.present) =>
                  /\ outcome.kind = "fail"
                  /\ Contains(outcome.msg, <<"Invalid API response", ": ">>)
                  /\ (b.msg = Text(<<"weird">>) =>
                        outcome.msg = <<"Invalid API response", ": ", "weird">>)
                  /\ (b.msg = NoText /\ b.message = NoText =>
                        outcome.msg = <<"Invalid API response", ": ", "Unknown error">>)
            /\ (lastDev.examined /\ b.code \notin Code8 /\ b.data.present
                  /\ ~b.data.isList) =>
                  /\ outcome.kind = "fail"
                  /\ outcome.msg = <<"Invalid API response", " structure">>
            /\ outcome.kind = "fail" => outcome.devices = <<>>

\* a mapping with a server message and no data field
MissingDataRejected ==
    /\ Done /\ lastDev.examined
    /\ ~lastDev.resp.body.data.present
    /\ lastDev.resp.body.msg = Text(<<"weird">>)
    /\ outcome.kind = "fail"
    /\ Contains(outcome.msg, <<"weird">>)

----------------------------------------------------------------------------
(* The event that ended a call *)

EndedAtLogin == Done /\ reqs[Len(reqs)].kind = "login"
EndedAtDevices == Done /\ reqs[Len(reqs)].kind = "devices"

----------------------------------------------------------------------------
(* C13: whatever makes get_devices or its login fail, the caller sees an    *)
(* UpdateFailed: a timeout and a connection fault with their own messages,  *)
(* and any other exception, in the first login, the first request, the      *)
(* refresh or the retry, as "Unexpected error: <detail>".                   *)
NoRawFaultEscapes ==
    Done =>
        /\ outcome.kind \in {"ok", "fail"}
        /\ outcome.kind = "fail" => outcome.cls = "UpdateFailed"
        /\ outcome.kind = "ok" => outcome.cls = ""
        /\ (EndedAtLogin /\ lastLogin.fault = "unexpected") =>
              outcome.msg = <<"Unexpected error", ": ", "Connection reset">>
        /\ (EndedAtDevices /\ lastDev.fault = "unexpected") =>
              outcome.msg = <<"Unexpected error", ": ", "Connection reset">>
        /\ (EndedAtDevices /\ NumDevices = 1 /\ firstDev.has
              /\ firstDev.code = PyList) =>
              outcome.msg =
                  <<"Unexpected error", ": ", "unhashable type: 'list'">>
        /\ (EndedAtLogin /\ lastLogin.fault = "timeout") =>
              Contains(outcome.msg, <<"timeout">>)
        /\ (EndedAtDevices /\ lastDev.fault = "timeout") =>
              Contains(outcome.msg, <<"timeout">>)
        /\ (EndedAtLogin /\ lastLogin.fault = "client_error") =>
              Contains(outcome.msg, <<"Network error">>)
        /\ (EndedAtDevices /\ lastDev.fault = "client_error") =>
              Contains(outcome.msg, <<"Network error">>)

\* an unexpected exception in the first login, which get_devices awaits
\* before its own try block
FirstLoginRaisedUnexpected ==
    /\ EndedAtLogin /\ NumLogin = 1 /\ NumDevices = 0
    /\ lastLogin.fault = "unexpected"
    /\ outcome.kind = "fail"
    /\ Contains(outcome.msg, <<"Unexpected error">>)

----------------------------------------------------------------------------
(* C14: an UpdateFailed raised by the first login, the refresh login, the   *)
(* retried request or the parsing of a body reaches the caller of           *)
(* get_devices with the message it was raised with, and only an unexpected  *)
(* exception is reported as "Unexpected error".                             *)
NestedFailureUnchanged ==
    (Done /\ outcome.kind = "fail") =>
        /\ (EndedAtLogin /\ lastLogin.fault = "none") =>
              outcome.msg = GetToken(lastLogin.resp).msg
        /\ (EndedAtLogin /\ lastLogin.fault = "timeout") =>
              outcome.msg =
                  <<"API request ", "timeout", " - check network connection">>
        /\ (EndedAtLogin /\ lastLogin.fault = "client_error") =>
              outcome.msg = <<"Network error", ": ", "Connection reset">>
        /\ (EndedAtDevices /\ lastDev.fault = "none"
              /\ ~FetchDevicesWithToken(lastDev.resp).ok) =>
              outcome.msg = FetchDevicesWithToken(lastDev.resp).msg
        /\ (EndedAtDevices /\ NumDevices = 2
              /\ lastDev.fault = "client_error") =>
              outcome.msg =
                  <<"Network error", " on ", "retry", ": ", "Connection reset">>
        /\ (EndedAtDevices /\ lastDev.examined) =>
              outcome = ExamineData(lastDev.resp.body)
        /\ Contains(outcome.msg, <<"Unexpected error">>) =>
              \/ EndedAtLogin /\ lastLogin.fault = "unexpected"
              \/ EndedAtDevices /\ lastDev.fault = "unexpected"
              \/ EndedAtDevices /\ NumDevices = 1 /\ firstDev.code = PyList

\* the retried request is answered with a body that is no JSON
RetryInvalidJson ==
    /\ EndedAtDevices /\ NumDevices = 2 /\ FirstInvalid
    /\ lastDev.fault = "none"
    /\ lastDev.resp.status = 200
    /\ lastDev.resp.body.kind = "invalid_json"
    /\ outcome.kind = "fail"
    /\ Contains(outcome.msg, <<"invalid response format">>)
    /\ ~Contains(outcome.msg, <<"Unexpected error">>)

----------------------------------------------------------------------------
(* Reading the last refresh cycle *)

CycleDone == cpc = "idle" /\ result.kind # "none"

----------------------------------------------------------------------------
(* C15: a finished refresh cycle has returned the device list, raised       *)
(* ConfigEntryAuthFailed or raised UpdateFailed; a failed cycle raises      *)
(* ConfigEntryAuthFailed exactly when the message of get_devices contains   *)
(* "Invalid email or password" or "HTTP 401", and either signal carries     *)
(* that message unchanged.                                                  *)
CycleEndsInOneOfThree ==
    CycleDone =>
        /\ Done
        /\ result.kind \in {"return", "raise"}
        /\ result.kind = "return" <=> outcome.kind = "ok"
        /\ result.kind = "raise" =>
              /\ result.cls \in {"ConfigEntryAuthFailed", "UpdateFailed"}
              /\ result.msg = outcome.msg
              /\ result.cls = "ConfigEntryAuthFailed" <=>
                    \/ Contains(outcome.msg, <<"Invalid email or password">>)
                    \/ Contains(outcome.msg, <<"HTTP ", "401">>)

\* a login refused with a text that names HTTP 401
AuthFailedByHttp401 ==
    /\ CycleDone /\ outcome.kind = "fail"
    /\ Contains(outcome.msg, <<"HTTP ", "401">>)
    /\ ~Contains(outcome.msg, <<"Invalid email or password">>)
    /\ result.cls = "ConfigEntryAuthFailed"

----------------------------------------------------------------------------
(* C16: a cycle that fails through a network fault, a timeout, an HTTP 5xx, *)
(* a malformed or unexpected response, a failed retry or code 8 raises      *)
(* UpdateFailed and never ConfigEntryAuthFailed.                            *)
NonCredentialCause ==
    \/ EndedAtLogin /\ lastLogin.fault # "none"
    \/ EndedAtLogin /\ lastLogin.fault = "none" /\ lastLogin.resp.status >= 500
    \/ EndedAtLogin /\ lastLogin.fault = "none" /\ lastLogin.resp.status = 200
          /\ lastLogin.resp.body.kind # "dict"
    \/ EndedAtDevices /\ lastDev.fault # "none"
    \/ EndedAtDevices /\ lastDev.fault = "none" /\ lastDev.resp.status >= 500
    \/ EndedAtDevices /\ lastDev.fault = "none"
          /\ lastDev.resp.body.kind # "dict"
    \/ EndedAtDevices /\ lastDev.examined
          /\ (~lastDev.resp.body.data.present \/ ~lastDev.resp.body.data.isList)
    \/ Code8Examined

NonCredentialFailureIsTransient ==
    (CycleDone /\ outcome.kind = "fail" /\ NonCredentialCause) =>
        result.cls = "UpdateFailed"

----------------------------------------------------------------------------
(* C17: the published device list changes only at the end of a successful   *)
(* cycle, to the list get_devices returned; a cycle that fails, with either *)
(* signal, leaves it as it was.                                             *)
CycleEnds == cpc = "awaiting" /\ cpc' = "idle"

FailedCycleKeepsPublished ==
    [][/\ (CycleEnds /\ outcome'.kind = "fail") => data' = data
       /\ data' # data =>
             /\ CycleEnds /\ outcome'.kind = "ok"
             /\ data' = Published(outcome'.devices)]_vars

\* a failed cycle after one that published a device
PublishedListSurvivedFailure ==
    /\ CycleDone /\ outcome.kind = "fail"
    /\ ~last_update_success
    /\ data.has /\ data.devices # <<>>

----------------------------------------------------------------------------
(* C18: after a successful cycle the published list is the list returned    *)
(* by get_devices for that cycle, element by element in the same order,     *)
(* and an empty returned list is published as an empty list.                *)
PublishedIsReturnedList ==
    (CycleDone /\ outcome.kind = "ok") =>
        /\ data.has
        /\ Len(data.devices) = Len(outcome.devices)
        /\ \A i \in 1..Len(outcome.devices) : data.devices[i] = outcome.devices[i]
        /\ data.devices = SelectSeq(lastDev.resp.body.data.items, Kept)

\* two devices published in the order the server sent them
TwoDevicesPublishedInOrder ==
    /\ CycleDone /\ outcome.kind = "ok"
    /\ data = Published(<<Device("d1", PyStr("HME-5")), Device("d3", PyNone)>>)

----------------------------------------------------------------------------
(* C19: after a refresh cycle last_update_success is true when get_devices  *)
(* returned a list, an empty one too, and false when the cycle failed.      *)
SuccessFlagIsCycleOutcome ==
    CycleDone =>
        /\ outcome.kind = "ok" => last_update_success
        /\ outcome.kind = "fail" => ~last_update_success
        /\ (outcome.kind = "ok" /\ outcome.devices = <<>>) =>
              /\ last_update_success
              /\ data = Published(<<>>)

\* a cycle whose list is empty after filtering, following a failed cycle
EmptyListCycleSucceeded ==
    /\ CycleDone /\ outcome.kind = "ok"
    /\ prevKind = "fail"
    /\ outcome.devices = <<>>
    /\ last_update_success

----------------------------------------------------------------------------
(* C20: last_latency is None until a cycle has succeeded, and after a       *)
(* successful cycle it is the time that cycle took, in milliseconds to one  *)
(* decimal place and never negative.                                        *)
LatencyOnlyAfterSuccess ==
    /\ last_latency.has <=> succeeded
    /\ (CycleDone /\ outcome.kind = "ok") =>
          /\ last_latency.has
          /\ last_latency.tenths >= 0
          /\ 100 * last_latency.tenths - elapsed \in -50..50

\* a cycle of 250.049 ms recorded as 250.0 ms
LatencyOfQuarterSecond ==
    /\ CycleDone /\ outcome.kind = "ok"
    /\ elapsed = 250049
    /\ last_latency = Latency(2500)

----------------------------------------------------------------------------
(* C21, as stated: after every finished cycle, failed ones too, the success *)
(* flag and the recorded latency are those of that cycle.                   *)
MetadataOfLastAttempt ==
    CycleDone =>
        /\ last_update_success = (outcome.kind = "ok")
        /\ last_latency.has
        /\ 100 * last_latency.tenths - elapsed \in -50..50

(* C21, amended: the success flag is set by every cycle; the latency is     *)
(* set by a successful cycle only, and a failed cycle leaves it as it was.  *)
LatencyKeptByFailedCycle ==
    [][/\ (CycleEnds /\ outcome'.kind = "fail") =>
             /\ last_latency' = last_latency
             /\ ~last_update_success'
       /\ (CycleEnds /\ outcome'.kind = "ok") =>
             /\ last_latency'.has
             /\ 100 * last_latency'.tenths - elapsed' \in -50..50
             /\ last_update_success']_vars

\* a failed cycle that took a quarter of a second, with the latency of an
\* earlier and faster cycle still recorded
StaleLatencyAfterFailure ==
    /\ CycleDone /\ outcome.kind = "fail"
    /\ ~last_update_success
    /\ elapsed = 250049
    /\ last_latency = Latency(12)

----------------------------------------------------------------------------
(* C24: in the call that follows a failure with code 8 the first request    *)
(* is a login, every device-list request comes right after a login request  *)
(* of the same call, and the first one carries the token that login         *)
(* returned.                                                                *)
CleanStartAfterCode8 ==
    (prevKind = "denied" /\ reqs # <<>>) =>
        /\ tokenAtStart = PyNone
        /\ reqs[1] = LoginReq
        /\ \A i \in 1..Len(reqs) :
              reqs[i].kind = "devices" => (i > 1 /\ reqs[i - 1].kind = "login")
        /\ Len(reqs) >= 2 =>
              /\ lastLogin.has \/ Len(reqs) > 2
              /\ (Len(reqs) = 2 => reqs[2] = DevReq(lastLogin.resp.body.token))

\* the call after a code-8 failure logs in and succeeds on the new token
SucceededAfterCode8 ==
    /\ Done /\ prevKind = "denied"
    /\ outcome.kind = "ok"
    /\ reqs = <<LoginReq, DevReq(PyStr("tokB"))>>

----------------------------------------------------------------------------
(* C22: at most one refresh cycle of a coordinator is in flight: while      *)
(* get_devices is suspended, scheduled and manual refresh requests wait,    *)
(* and a login of the client is never under way in two cycles at once.      *)
OneCycleInFlight ==
    /\ inflight \in {0, 1}
    /\ inflight = 1 <=> cpc = "awaiting"
    /\ pc # "idle" => inflight = 1
    /\ inflight = 0 => pc = "idle"

\* a scheduled and a manual refresh both waiting while the refresh login of
\* the running cycle is under way
RequestsWaitDuringRefresh ==
    /\ cpc = "awaiting" /\ inflight = 1
    /\ pc = "refresh"
    /\ pending = {"scheduled", "manual"}


----------------------------------------------------------------------------
(* C23: configured accounts are independent: two stored coordinators never  *)
(* hold the same client, and a step for one entry (a cycle that succeeds,   *)
(* fails or clears the token after code 8, a setup, an unload) leaves the   *)
(* token, the published list, the success flag and the latency of every     *)
(* other entry as they were.                                                *)
View(e) ==
    [token |-> IF registry[e].has THEN apis[registry[e].api] ELSE PyNone,
     data |-> registry[e].data,
     last_update_success |-> registry[e].last_update_success,
     last_latency |-> registry[e].last_latency]

OwnClients ==
    \A e, f \in EntryIds :
        (e # f /\ registry[e].has /\ registry[f].has) =>
            registry[e].api # registry[f].api

AccountsIndependent ==
    [][/\ OwnClients'
       /\ \A e, f \in EntryIds :
            (last'.actor = e /\ f # e) => View(f)' = View(f)]_vars

TokenClearedBesideLiveAccount ==
    /\ last.kind = "cycle" /\ last.actor = 1 /\ last.cause = "denied"
    /\ entries[1].state = "loaded" /\ entries[2].state = "loaded"
    /\ View(1).token = PyNone /\ ~View(1).last_update_success
    /\ View(2).token = PyStr("tokB") /\ View(2).last_update_success
    /\ View(2).data = Published(<<DevD1>>)
    /\ View(1).data = Published(<<>>)

----------------------------------------------------------------------------
(* C25: a setup whose first refresh fails with invalid credentials leaves   *)
(* the entry in setup-error with re-authentication requested; a setup whose *)
(* first refresh fails for any other reason leaves it in setup-retry.       *)
SetupFailed == last.kind = "setup" /\ last.cls # ""

SetupFailureFollowsCause ==
    SetupFailed =>
        IF last.cause = "credentials"
        THEN /\ entries[last.actor].state = "setup_error"
             /\ entries[last.actor].reauth
             /\ last.cls = "ConfigEntryAuthFailed"
        ELSE /\ entries[last.actor].state = "setup_retry"
             /\ last.cls = "ConfigEntryNotReady"

----------------------------------------------------------------------------
(* C26: the registry holds a coordinator for an entry exactly while the     *)
(* entry is loaded (an entry whose platform unload failed stays loaded): it *)
(* is added only by a setup whose first refresh succeeded, a failed setup   *)
(* adds none, an unload removes it when the platforms unloaded and keeps it *)
(* when they did not.                                                       *)
Loaded(e) == entries[e].state \in {"loaded", "failed_unload"}

RegistryFollowsLoad ==
    [][\A e \in EntryIds :
         /\ registry'[e].has <=> Loaded(e)'
         /\ (~registry[e].has /\ registry'[e].has) =>
                /\ last' = [NoStep EXCEPT !.kind = "setup", !.actor = e,
                                          !.cause = last'.cause, !.calls = 1]
                /\ last'.cause \in GoodCauses
                /\ registry'[e].last_update_success
                /\ registry'[e].data # NotPublished
         /\ (last'.kind = "setup" /\ last'.actor = e /\ last'.cls # "") =>
                ~registry'[e].has
         /\ (last'.kind = "unload" /\ last'.actor = e) =>
                IF last'.error = ""
                THEN ~registry'[e].has
                ELSE registry'[e] = registry[e] /\ registry[e].has
         /\ (registry[e].has /\ ~registry'[e].has) =>
                last' = [NoStep EXCEPT !.kind = "unload", !.actor = e]]_vars

KeptAfterFailedUnload ==
    /\ last.kind = "unload" /\ last.error = "failed" /\ last.actor = 1
    /\ entries[1].state = "failed_unload" /\ registry[1].has
    /\ entries[2].state = "setup_retry" /\ ~registry[2].has


----------------------------------------------------------------------------
(* C27: the update interval of a stored coordinator is the scan_interval of *)
(* the entry's options when there is one, otherwise the scan_interval of    *)
(* the entry's data, otherwise 60 seconds.                                  *)
IntervalByPrecedence ==
    \A e \in EntryIds :
        registry[e].has =>
            registry[e].update_interval =
                IF entries[e].options.has THEN entries[e].options.val
                ELSE IF entries[e].interval.has THEN entries[e].interval.val
                ELSE 60

OptionsBeforeDataAndDefault ==
    /\ registry[1].has /\ registry[2].has
    /\ entries[1].options = SomeInt(120) /\ entries[1].interval = SomeInt(10)
    /\ registry[1].update_interval = 120
    /\ ~entries[2].options.has /\ ~entries[2].interval.has
    /\ registry[2].update_interval = 60

----------------------------------------------------------------------------
(* C28: a validation that reaches its get_devices call makes exactly one    *)
(* call: it succeeds exactly when the server's first answers yield a list,  *)
(* it raises InvalidAuth when the failure message contains "Invalid email   *)
(* or password" and CannotConnect for every other failure.                  *)
ValidationRan ==
    /\ last.kind \in {"user", "reauth"}
    /\ last.error # "schema"
    /\ last.cls # "RuntimeError"

ValidationIsOneCall ==
    ValidationRan =>
        /\ last.calls = 1
        /\ last.cls = "" <=> last.cause \in GoodCauses
        /\ last.cls # "" =>
              IF Contains(last.msg, <<"Invalid email or password">>)
              THEN last.cls = "InvalidAuth"
              ELSE last.cls = "CannotConnect"

NetworkFaultIsCannotConnect ==
    /\ ValidationRan
    /\ last.cause = "network"
    /\ last.cls = "CannotConnect"
    /\ last.calls = 1
    /\ last.error = "cannot_connect"

----------------------------------------------------------------------------
(* C29: a step of the user flow or of the re-authentication flow stores the *)
(* credentials (creates the entry, or updates the entry and reloads it)     *)
(* only when the validation succeeded; otherwise it shows invalid_auth,     *)
(* cannot_connect or unknown and leaves entries and registry as they were.  *)
PersistedOnlyIfValidated ==
    [][last'.kind \in {"user", "reauth"} =>
         IF last'.cls = "" /\ last'.calls = 1
         THEN /\ last'.error = ""
              /\ last'.cause \in GoodCauses
              /\ entries'[last'.actor].state = "not_loaded"
              /\ entries'[last'.actor].cred =
                     (IF last'.kind = "user" THEN "first" ELSE "renewed")
              /\ ~entries'[last'.actor].reauth
              /\ ~registry'[last'.actor].has
         ELSE /\ last'.error \in {"invalid_auth", "cannot_connect",
                                  "unknown", "schema"}
              /\ last'.error = "unknown" <=> last'.cls = "RuntimeError"
              /\ entries' = entries
              /\ registry' = registry]_vars

ReauthRefusedKeepsEntry ==
    /\ last.kind = "reauth" /\ last.actor = 1
    /\ last.error = "invalid_auth"
    /\ entries[1].cred = "first"
    /\ entries[1].state = "setup_error"
    /\ entries[1].reauth

----------------------------------------------------------------------------
(* C30: the user flow stores only whole intervals from 10 to 3600 seconds:  *)
(* given 10, 60 or 3600 with valid credentials it creates the entry with    *)
(* that interval, given a whole number below 10 or above 3600 it creates    *)
(* no entry.                                                                *)
Whole(tenths) == tenths % 10 = 0

----------------------------------------------------------------------------
(* C34: within one get_devices call the requests go out one after another:  *)
(* a request is issued either by the call's start or by the step that       *)
(* receives the answer to the previous one, one at a time; the refresh      *)
(* login is issued by the step that receives the first device-list          *)
(* response and finds a token-invalid code in it; the retried device-list   *)
(* request is issued by the step in which the refresh login succeeds and    *)
(* carries the token that login returned, which is the stored one.          *)
RequestsInSequence ==
    [][/\ reqs' # reqs =>
            \/ pc = "idle" /\ Len(reqs') = 1
            \/ /\ pc # "idle"
               /\ reqs' = Append(reqs, reqs'[Len(reqs')])
               /\ (pc \in {"login", "refresh"}) => LoginSucceeded'
               /\ pc # "retry"
               /\ pc = "fetch" => firstDev'.has
       /\ (pc' = "refresh" /\ pc # "refresh") =>
            /\ pc = "fetch"
            /\ FirstInvalid'
            /\ reqs' = Append(reqs, LoginReq)
       /\ (pc' = "retry" /\ pc # "retry") =>
            /\ pc = "refresh"
            /\ LoginSucceeded'
            /\ reqs' = Append(reqs, DevReq(lastLogin'.resp.body.token))
            /\ token' = lastLogin'.resp.body.token]_vars

\* the retried request is out, carrying the refreshed token, not the stale one
RetryCarriesRefreshedToken ==
    /\ pc = "retry"
    /\ tokenAtStart = PyStr("tokA")
    /\ reqs = <<DevReq(PyStr("tokA")), LoginReq, DevReq(PyStr("tokB"))>>
    /\ token = PyStr("tokB")

----------------------------------------------------------------------------
(* More reading of the history *)

\* the retried device-list response parsed to a mapping with a sentinel code
RetriedInvalid ==
    /\ NumDevices = 2 /\ lastDev.has /\ lastDev.fault = "none"
    /\ lastDev.resp.status < 500
    /\ lastDev.resp.body.kind = "dict"
    /\ lastDev.resp.body.code \in SentinelCodes

\* at most two requests of either kind, the second login being the refresh
AtMostTwoOfEach ==
    /\ NumDevices <= 2
    /\ NumLogin <= 2
    /\ NumLogin = 2 => (~Truthy(tokenAtStart) /\ FirstInvalid)
    /\ Len(reqs) <= 4

----------------------------------------------------------------------------
(* C35, as claimed: one get_devices call issues at most two device-list     *)
(* requests and at most two login requests (an initial one only when no     *)
(* token is held, and one refresh), and when the retried response again     *)
(* carries a token-invalid code the call fails.                             *)
RetriedSentinelFails ==
    /\ AtMostTwoOfEach
    /\ (Done /\ RetriedInvalid) => outcome.kind = "fail"

(* C35, amended: the bounds on the requests hold at every moment; a retried *)
(* response that again carries a token-invalid code ends the call without   *)
(* another request, and the call then fails unless that response carries a  *)
(* data list, which it returns (filtered) like any other.                   *)
RetriedSentinelEndsCall ==
    /\ AtMostTwoOfEach
    /\ RetriedInvalid =>
         /\ Done
         /\ IF lastDev.resp.body.data.present /\ lastDev.resp.body.data.isList
            THEN outcome =
                   Returned(SelectSeq(lastDev.resp.body.data.items, Kept))
            ELSE outcome.kind = "fail"

\* two logins, two device-list requests, and a sentinel code on the retry too
SecondSentinelFailed ==
    /\ Done /\ RetriedInvalid
    /\ NumLogin = 2 /\ NumDevices = 2
    /\ ~lastDev.resp.body.data.present
    /\ outcome.kind = "fail"

----------------------------------------------------------------------------
(* C36: a login that fails, whatever the reason (status, body, timeout,     *)
(* network or unexpected fault), leaves the stored token as it was; so a    *)
(* failed refresh leaves the stale token in place.                          *)
FailedLoginKeepsToken ==
    [][(pc \in {"login", "refresh"} /\ pc' = "idle") =>
          /\ ~LoginSucceeded'
          /\ token' = token]_vars

\* a refresh that timed out, the stale token still stored
StaleTokenAfterFailedRefresh ==
    /\ Done /\ outcome.kind = "fail"
    /\ Truthy(tokenAtStart) /\ FirstInvalid
    /\ lastLogin.has /\ lastLogin.fault = "timeout"
    /\ NumDevices = 1
    /\ token = tokenAtStart

----------------------------------------------------------------------------
(* C37: with calls on one client made one at a time, every device-list      *)
(* request, first or retried, carries a present and non-empty token, after  *)
(* any sequence of successful and failed calls.                             *)
DeviceRequestsCarryToken ==
    \A i \in 1..Len(reqs) :
        reqs[i].kind = "devices" =>
            /\ Truthy(reqs[i].tok)
            /\ reqs[i].tok \in Tokens

\* the call after a code-8 failure cleared the token: it logs in first and
\* its device-list request carries the new token
RequestAfterTokenCleared ==
    /\ prevKind = "denied"
    /\ tokenAtStart = PyNone
    /\ Len(reqs) = 2
    /\ reqs[1] = LoginReq
    /\ reqs[2].kind = "devices" /\ Truthy(reqs[2].tok)

----------------------------------------------------------------------------
(* C38: the client recovers within one call once the server is healthy.     *)
(* A healthy server accepts the credentials, answers a device-list request  *)
(* carrying a stale token with a token-invalid code and one carrying a      *)
(* fresh token with a well-formed data list.                                *)

HealthyLists == {<<DevD1>>, <<DevD2, DevD1>>, <<>>}

\* the exchanges a healthy server can have with a call that starts with tok:
\* a held token is either still valid or stale
HealthyScripts(tok) ==
    {[sc |-> Script("ok", LoginOk(f), DevList(ds), LoginOk(f), DevList(ds)),
      list |-> ds, fresh |-> IF Truthy(tok) THEN tok ELSE f,
      requests |-> IF Truthy(tok) THEN 1 ELSE 2] :
        f \in Tokens, ds \in HealthyLists}
    \cup
    {[sc |-> Script("expired", LoginOk(f), DevCode(c), LoginOk(f), DevList(ds)),
      list |-> ds, fresh |-> f, requests |-> 3] :
        f \in Tokens \ {tok}, ds \in HealthyLists,
        c \in IF Truthy(tok) THEN SentinelCodes ELSE {}}

\* the exchange of the current call was one with a healthy server
HealthyExchange ==
    /\ lastLogin.has => LoginSucceeded
    /\ lastDev.has /\ lastDev.fault = "none"
    /\ lastDev.resp.status = 200
    /\ lastDev.resp.body.kind = "dict"
    /\ lastDev.resp.body.code = PyInt(0)
    /\ lastDev.resp.body.data.present /\ lastDev.resp.body.data.isList
    /\ NumDevices = 2 => (Truthy(tokenAtStart) /\ FirstInvalid)

\* from the token state between two calls, a call answered by a healthy
\* server returns the server's list (filtered) and leaves the fresh token
\* stored, in at most three requests; and a call of the step model whose
\* exchange was healthy has ended with that list
HealthyCallReturnsList ==
    /\ pc = "idle" =>
         \A h \in HealthyScripts(token) :
            LET r == RunGetDevices(token, h.sc)
            IN  /\ r.outcome = Returned(SelectSeq(h.list, Kept))
                /\ r.token = h.fresh
                /\ r.requests = h.requests
    /\ HealthyExchange =>
         /\ Done
         /\ outcome = Returned(SelectSeq(lastDev.resp.body.data.items, Kept))
         /\ Truthy(token)

(* C38: from every token state the client reaches (absent, valid, stale     *)
(* after any sequence of failed calls), a get_devices call answered by a    *)
(* healthy server returns the server's list, and every call that was        *)
(* started ends, each of its requests being answered or timed out.          *)
RecoversWhenHealthy ==
    /\ []HealthyCallReturnsList
    /\ (pc # "idle") ~> Done

\* a failed call left a stale token behind; the next call refreshed it and
\* returned the list
RecoveredFromStaleToken ==
    /\ Done /\ HealthyExchange
    /\ prevKind = "fail"
    /\ Truthy(tokenAtStart) /\ token # tokenAtStart
    /\ firstDev.code = PyInt(-1)
    /\ NumLogin = 1 /\ NumDevices = 2
    /\ outcome.kind = "ok" /\ outcome.devices # <<>>

----------------------------------------------------------------------------
(* C39: a cycle that starts with a held token, gets a token-invalid code on *)
(* its device-list request and HTTP 401 on the refresh login issues no      *)
(* retried request; get_devices fails with "Invalid email or password" and  *)
(* the coordinator raises ConfigEntryAuthFailed, not UpdateFailed.          *)
RefreshRefusedIsAuthFailure ==
    (/\ CycleDone /\ pc = "idle"
     /\ Truthy(tokenAtStart) /\ FirstInvalid
     /\ lastLogin.has /\ lastLogin.fault = "none"
     /\ lastLogin.resp.status = 401) =>
        /\ reqs = <<DevReq(tokenAtStart), LoginReq>>
        /\ outcome.kind = "fail"
        /\ outcome.msg = MsgInvalidCredentials
        /\ result.kind = "raise"
        /\ result.cls = "ConfigEntryAuthFailed"

\* the password was changed while the integration was polling
CredentialChangeSeenWhilePolling ==
    /\ CycleDone /\ pc = "idle"
    /\ data.has
    /\ Truthy(tokenAtStart) /\ FirstInvalid
    /\ lastLogin.has /\ lastLogin.resp.status = 401
    /\ result.cls = "ConfigEntryAuthFailed"

----------------------------------------------------------------------------
(* Reading the sensor platform *)

IsTotal(e) == e.cls \in {"MarstekTotalChargeSensor", "MarstekTotalPowerSensor"}

\* the devids of the published records that have a usable devid
UsableDevIds(devices) ==
    {devices[i].devid : i \in {j \in 1..Len(devices) :
        /\ devices[j].devid \notin {NoKey, PyNone, PyStr(""), PyStr("unknown")}}}

\* the setup of the sensor platform happens in this step
PlatformSetUp == entities.state = "none" /\ entities'.state # "none"

(* C31, as claimed: sensor setup creates no entity when the published list  *)
(* is empty; otherwise it creates per-device sensors for exactly the        *)
(* devices with a present, non-empty devid other than "unknown", and adds   *)
(* exactly the two account-wide sensors, even when every device was         *)
(* skipped.                                                                 *)
SetupAddsTotalsAlways ==
    [][PlatformSetUp =>
          IF data.devices = <<>>
          THEN entities'.list = <<>>
          ELSE LET l == entities'.list
               IN  /\ {l[i].devid : i \in {j \in 1..Len(l) : ~IsTotal(l[j])}}
                        = UsableDevIds(data.devices)
                   /\ Cardinality({i \in 1..Len(l) : IsTotal(l[i])}) = 2
                   /\ entities'.state = "added"]_vars

----------------------------------------------------------------------------
\* the published record the entity of a reading belongs to, and its powers
ShownDevice == GetDeviceData(data.devices, shown'.entity.devid)
ShownPv == GetOrZero(ShownDevice.dev.pv)
ShownDischarge == GetOrZero(ShownDevice.dev.discharge)
PositivePart(x) == IF x > 0 THEN x ELSE 0

\* a native_value is read in this step
Reads(cls) == shown' # shown /\ shown'.entity.cls = cls

\* both calculated powers of every device with sensors, as they would read
BothPowers(devid) ==
    [charge |-> CalculatedChargePower(data.devices, devid).i,
     discharge |-> CalculatedDischargePower(data.devices, devid).i]

(* C32, as claimed: the calculated charge power equals max(0, pv -          *)
(* discharge) and the calculated discharge power max(0, discharge - pv),    *)
(* for all values of pv and discharge; both are 0 for a device missing      *)
(* from the published list.                                                 *)
CalculatedPowerExact ==
    [][/\ Reads("MarstekCalculatedChargePowerSensor") =>
            10 * shown'.value.i =
                (IF ShownDevice.has
                 THEN PositivePart(ShownPv - ShownDischarge) ELSE 0)
       /\ Reads("MarstekCalculatedDischargePowerSensor") =>
            10 * shown'.value.i =
                (IF ShownDevice.has
                 THEN PositivePart(ShownDischarge - ShownPv) ELSE 0)]_vars

(* C32, amended: the calculated charge power is max(0, pv - discharge)      *)
(* rounded to one decimal place and the calculated discharge power is       *)
(* max(0, discharge - pv) rounded to one decimal place, a missing pv or     *)
(* discharge counting as 0; both are never negative, never both positive,   *)
(* and both 0 when the device is missing from the published list.           *)
CalculatedPowerRounded ==
    [][/\ Reads("MarstekCalculatedChargePowerSensor") =>
            /\ shown'.value.t = "float" /\ shown'.value.i >= 0
            /\ IF ShownDevice.has
               THEN /\ 10 * shown'.value.i - PositivePart(ShownPv - ShownDischarge) <= 5
                    /\ PositivePart(ShownPv - ShownDischarge) - 10 * shown'.value.i <= 5
               ELSE shown'.value.i = 0
       /\ Reads("MarstekCalculatedDischargePowerSensor") =>
            /\ shown'.value.t = "float" /\ shown'.value.i >= 0
            /\ IF ShownDevice.has
               THEN /\ 10 * shown'.value.i - PositivePart(ShownDischarge - ShownPv) <= 5
                    /\ PositivePart(ShownDischarge - ShownPv) - 10 * shown'.value.i <= 5
               ELSE shown'.value.i = 0
       /\ \A devid \in {PyStr("d1"), PyStr("d2")} :
            BothPowers(devid).charge = 0 \/ BothPowers(devid).discharge = 0]_vars

\* a discharge of 12.37 W read as 12.4 W
DischargeRoundedUp ==
    /\ shown.has
    /\ shown.entity =
         Entity("MarstekCalculatedDischargePowerSensor", PyStr("d2"),
                "calculated_discharge_power")
    /\ shown.value = Float(124)
    /\ GetDeviceData(data.devices, PyStr("d2")).has

----------------------------------------------------------------------------
(* C33: the diagnostic sensors mirror the coordinator's health metadata:    *)
(* connection status reads "online" exactly when last_update_success is     *)
(* true and "offline" otherwise, last update reads a timestamp only when    *)
(* the flag is true and None otherwise, API latency reads last_latency; and *)
(* reading any sensor leaves the published list, the flag and the latency   *)
(* as they were.                                                            *)
DiagnosticsMirrorHealth ==
    [][/\ Reads("MarstekDiagnosticSensor") =>
            /\ shown'.entity.key = "connection_status" =>
                 shown'.value = (IF last_update_success THEN PyStr("online")
                                 ELSE PyStr("offline"))
            /\ shown'.entity.key = "last_update" =>
                 shown'.value = (IF last_update_success THEN Now ELSE PyNone)
            /\ shown'.entity.key = "api_latency" =>
                 shown'.value = (IF last_latency.has
                                 THEN Float(last_latency.tenths) ELSE PyNone)
       /\ shown' # shown =>
            UNCHANGED <<data, last_update_success, last_latency, entities>>]_vars

\* "offline" read after a failed refresh, the list and the latency of the
\* last good refresh still there
OfflineShownWithDataKept ==
    /\ shown.has
    /\ shown.entity.key = "connection_status"
    /\ shown.value = PyStr("offline")
    /\ ~last_update_success
    /\ data.has /\ data.devices # <<>>
    /\ last_latency.has

====
